---- MODULE Spec2Model ----
(***************************************************************************)
(* Orchestration core of the Aether workspace (src/App.tsx and the engine  *)
(* in src/components/ConfigPanel.tsx): the Node Store, the simulation      *)
(* fork (start / commit / abort) and the recursive tool-execution loop of  *)
(* processChatTurn.                                                        *)
(*                                                                         *)
(* processChatTurn, startSimulation, commitSimulation, abortSimulation and *)
(* setActiveProject are closures of one render of App.  A turn started by  *)
(* handleSend keeps calling the closures of the render it was started in,  *)
(* also in its recursive dispatches, so inside a turn the values of        *)
(* project, isSimulating and simulatedProject that the code READS are the  *)
(* ones captured in `closure`, while the setters WRITE the React state.    *)
(***************************************************************************)
EXTENDS Integers, Sequences, FiniteSets, TLC

\* ---------------------------------------------------------------- bounds
\* Tool calls requested in one behaviour, over all batches and turns.
MaxCalls == 4      \* in Spec
MaxLoopCalls == 3  \* in SpecLoop
MaxTreeCalls == 3  \* in SpecTree
MaxStreamCalls == 2  \* in SpecStream and SpecInactive
MaxForkCalls == 2  \* in SpecFork
MaxLines == 4      \* lines of one response, in SpecUniversal
MaxChunks == 3     \* chunks of one response, in SpecNative
MaxText == 2      \* characters of text streamed in one phase, in SpecStream
MaxNewSessions == 4  \* sessions created, in SpecSessions
MaxUiOps == 1      \* clicks on the simulation banner / error boundary / inspector

\* ------------------------------------------------------------ vocabulary
None == "none"                 \* JavaScript undefined / a missing argument
NullParent == "null"           \* parentId: null of the root

Root == "root"
NewIds == <<"n1", "n2", "n3", "n4", "n5", "n6">>

uuid(k) == NewIds[k]

\* A ChatSession, by its id and title (its messages are the variable session).
Session(id) == [id |-> id, title |-> "New Session"]

\* The characters of the node names the model uses.
Chars ==
    ("Aether_Kernel" :> <<"A","e","t","h","e","r","_","K","e","r","n","e","l">>) @@
    ("Get Time" :> <<"G","e","t"," ","T","i","m","e">>) @@
    ("Py-Tool" :> <<"P","y","-","T","o","o","l">>) @@
    ("AI_Generated_Node" :>
        <<"A","I","_","G","e","n","e","r","a","t","e","d","_","N","o","d","e">>) @@
    ("Memo" :> <<"M","e","m","o">>)

WordChars ==
    {"a","b","c","d","e","f","g","h","i","j","k","l","m","n","o","p","q","r","s",
     "t","u","v","w","x","y","z","A","B","C","D","E","F","G","H","I","J","K","L",
     "M","N","O","P","Q","R","S","T","U","V","W","X","Y","Z","0","1","2","3","4",
     "5","6","7","8","9","_"}

RECURSIVE JoinChars(_)
JoinChars(cs) == IF cs = <<>> THEN "" ELSE Head(cs) \o JoinChars(Tail(cs))

\* name.replace(/[^a-zA-Z0-9_]/g, '_')
sanitizeName(name) ==
    JoinChars([i \in 1..Len(Chars[name]) |->
                 IF Chars[name][i] \in WordChars THEN Chars[name][i] ELSE "_"])

\* ------------------------------------------------------------ node store
\* A project is [rootNodeId, nodes, order]: nodes maps the ids present to
\* their node objects and order is the key order of the nodes object.
Node(id, parentId, type, name, language, instr, mem) ==
    [id |-> id, parentId |-> parentId, type |-> type, name |-> name,
     language |-> language, systemInstruction |-> instr, memoryContent |-> mem,
     provider |-> None, apiKey |-> None,
     toolType |-> IF type = "TOOL" THEN "function" ELSE None]

\* The kernel of the default project, with an API key set in the inspector.
savedRoot ==
    [Node(Root, NullParent, "SYSTEM", "Aether_Kernel", None, None, None)
        EXCEPT !.provider = "google", !.apiKey = "sk-node"]

\* The project loaded from localStorage (JSON.parse(savedProject)): the
\* kernel and two tools, one in JavaScript and one in Python.
savedNodes ==
    (Root :> savedRoot) @@
    ("tjs" :> Node("tjs", Root, "TOOL", "Get Time", "javascript", None, None)) @@
    ("tpy" :> Node("tpy", Root, "TOOL", "Py-Tool", "python", None, None))

savedProject ==
    [rootNodeId |-> Root, selectedNodeId |-> Root, nodes |-> savedNodes,
     order |-> <<Root, "tjs", "tpy">>]

Has(p, id) == id \in DOMAIN p.nodes

RECURSIVE Without(_, _)
Without(seq, x) ==
    IF seq = <<>> THEN <<>>
    ELSE IF Head(seq) = x THEN Without(Tail(seq), x)
         ELSE <<Head(seq)>> \o Without(Tail(seq), x)

\* nodes[id] = node
PutNode(p, id, node) ==
    [p EXCEPT !.nodes = (id :> node) @@ p.nodes,
              !.order = IF id \in DOMAIN p.nodes THEN p.order ELSE Append(p.order, id)]

\* delete nodes[id]
DeleteNode(p, id) ==
    [p EXCEPT !.nodes = [k \in (DOMAIN p.nodes) \ {id} |-> p.nodes[k]],
              !.order = Without(p.order, id)]

\* Mutant of StringifyNode: a null member is left out like an undefined one.
StringifyNode_DropsNull(node) ==
    [f \in {g \in DOMAIN node : node[g] \notin {None, NullParent}} |-> node[f]]

\* JSON.stringify of a node object: the members whose value is undefined
\* are left out, null (the parentId of the root) is written.
StringifyNode(node) ==
    [f \in {g \in DOMAIN node : node[g] # None} |-> node[f]]

\* JSON.stringify(project): the entries of nodes in key order.
Stringify(p) ==
    [rootNodeId |-> p.rootNodeId, selectedNodeId |-> p.selectedNodeId,
     entries |-> [i \in 1..Len(p.order) |->
                     <<p.order[i], StringifyNode(p.nodes[p.order[i]])>>]]

\* Reading the member f of a parsed object: undefined when it is absent.
Member(obj, f) == IF f \in DOMAIN obj THEN obj[f] ELSE None

\* JSON.parse of a node object, as the program reads it.
ParseNode(obj) ==
    [id |-> Member(obj, "id"), parentId |-> Member(obj, "parentId"),
     type |-> Member(obj, "type"), name |-> Member(obj, "name"),
     language |-> Member(obj, "language"),
     systemInstruction |-> Member(obj, "systemInstruction"),
     memoryContent |-> Member(obj, "memoryContent"),
     provider |-> Member(obj, "provider"), apiKey |-> Member(obj, "apiKey"),
     toolType |-> Member(obj, "toolType")]

\* JSON.parse(text): a fresh object built entry by entry.
RECURSIVE ParseEntries(_, _)
ParseEntries(entries, acc) ==
    IF entries = <<>> THEN acc
    ELSE ParseEntries(Tail(entries),
                      PutNode(acc, Head(entries)[1], ParseNode(Head(entries)[2])))

Parse(text) ==
    ParseEntries(text.entries,
                 [rootNodeId |-> text.rootNodeId,
                  selectedNodeId |-> text.selectedNodeId,
                  nodes |-> <<>>, order |-> <<>>])

\* JSON.parse(JSON.stringify(project))
DeepCopy(p) == Parse(Stringify(p))

\* ----------------------------------------------------- calls and messages
\* A requested tool call {name, args}.  hasArgs = FALSE is a call whose args
\* are null or undefined; a field of args that is absent is None.
Call(name, hasArgs, action, nodeId, parentId, type, nname, content, language) ==
    [name |-> name, hasArgs |-> hasArgs, action |-> action, nodeId |-> nodeId,
     parentId |-> parentId, type |-> type, nname |-> nname, content |-> content,
     language |-> language, parsable |-> TRUE]

ManageSimulation(action) ==
    Call("manage_simulation", TRUE, action, None, None, None, None, None, None)
ManageNode(action, nodeId, parentId, type, nname, content) ==
    Call("manage_node", TRUE, action, nodeId, parentId, type, nname, content, None)
NoArgs(name) == Call(name, FALSE, None, None, None, None, None, None, None)
ToolCall(name) == Call(name, TRUE, None, None, None, None, None, None, None)

\* An entry of the universal driver's toolCallBuffer whose accumulated
\* arguments JSON.parse rejects.
Unparsable(name) == [NoArgs(name) EXCEPT !.parsable = FALSE]

\* Message: role, toolResponse.name (or the log source), toolResponse.content,
\* toolCalls, and whether groundingMetadata is set.
Msg(role, name, content, calls) ==
    [role |-> role, name |-> name, content |-> content, toolCalls |-> calls,
     groundingMetadata |-> FALSE]

ModelMsg(content, calls) == Msg("model", None, content, calls)

\* { id: aiMsgId, role: Role.MODEL, content: '', thinking: true }
Placeholder == ModelMsg("", <<>>)

\* Texts the loop puts in place of an empty content.
Executing == "Executing..."
ThoughtComplete == "Thought process complete. Executing tool."
ErrorText == "Error: "
ToolResponseMsg(call, result) == Msg("tool", call.name, result, <<>>)
LogMsg(source, type) == Msg("system", source, type, <<>>)

\* The texts of the tool results, by their fixed part.
RStarted == "Simulation Runtime Started. You are now operating in a sandboxed copy."
RCommitted == "Simulation Committed to Live."
RAborted == "Simulation Aborted."
RActionFailed == "Action failed"
RCreated == "Success. Node created with ID"
RUpdated == "Success. Node updated."
RDeleted == "Success. Node deleted."
RErrParent == "Error: Parent not found"
RErrNode == "Error: Node not found"
RErrType == "Error: Cannot read properties of undefined"
RToolOutput == "tool output"
RException == "Runtime Exception"
RNotFound == "[System] Error: Tool definition not found in active registry."

\* ---------------------------------------------------------------- engine
\* An entry of the tool catalog: {functionDeclarations: [...]} with the names
\* of its declarations, or {googleSearch: {}}.
FunctionDeclarations(names) == [kind |-> "functionDeclarations", names |-> names]
GoogleSearch == [kind |-> "googleSearch", names |-> <<>>]

\* const systemTools = [{ functionDeclarations: [manage_node, manage_simulation] }]
systemTools == <<FunctionDeclarations(<<"manage_node", "manage_simulation">>)>>

\* A labelled block of the instruction text: `[<label>: <name> (ID: <id>)]`.
Block(label, id) == [label |-> label, id |-> id]

Range(seq) == {seq[i] : i \in 1..Len(seq)}

\* const shouldInclude = (id) => activeNodeIds.includes(id) || id === rootNodeId
shouldInclude(p, activeNodeIds, id) ==
    id \in Range(activeNodeIds) \/ id = p.rootNodeId

\* Object.values(project.nodes).filter(n => n.parentId === nodeId)
ChildrenOf(p, nodeId) ==
    LET isChild(k) == p.nodes[k].parentId = nodeId
    IN  SelectSeq(p.order, isChild)

\* What traverse(nodeId) appends for the node itself.
NodeContext(p, activeNodeIds, node) ==
    IF ~shouldInclude(p, activeNodeIds, node.id)
    THEN [instruction |-> <<>>, tools |-> <<>>]
    ELSE IF node.type \in {"AGENT", "ROUTER"}
    THEN [instruction |-> <<Block(node.type, node.id)>>, tools |-> <<>>]
    ELSE IF node.type = "TOOL"
    THEN [instruction |-> <<Block("Tool", node.id)>>,
          tools |-> IF node.toolType = "googleSearch" THEN <<GoogleSearch>>
                    ELSE <<FunctionDeclarations(<<sanitizeName(node.name)>>)>>]
    ELSE IF node.type = "MEMORY"
    THEN [instruction |-> <<Block("Memory", node.id)>>, tools |-> <<>>]
    ELSE [instruction |-> <<>>, tools |-> <<>>]

\* const traverse = (nodeId) => { ... children.forEach(c => traverse(c.id)) }
\* path holds the calls of traverse that are on the stack: a node met again
\* on it recurses without end (RangeError: call stack size exceeded).
RECURSIVE traverse(_, _, _, _)
RECURSIVE traverseEach(_, _, _, _)
traverse(p, activeNodeIds, nodeId, path) ==
    IF ~Has(p, nodeId)
    THEN [instruction |-> <<>>, tools |-> <<>>, overflow |-> FALSE]
    ELSE IF nodeId \in path
    THEN [instruction |-> <<>>, tools |-> <<>>, overflow |-> TRUE]
    ELSE LET own == NodeContext(p, activeNodeIds, p.nodes[nodeId])
             sub == traverseEach(p, activeNodeIds, ChildrenOf(p, nodeId),
                                 path \cup {nodeId})
         IN  [instruction |-> own.instruction \o sub.instruction,
              tools |-> own.tools \o sub.tools,
              overflow |-> sub.overflow]

traverseEach(p, activeNodeIds, ids, path) ==
    IF ids = <<>>
    THEN [instruction |-> <<>>, tools |-> <<>>, overflow |-> FALSE]
    ELSE LET first == traverse(p, activeNodeIds, Head(ids), path)
             rest == traverseEach(p, activeNodeIds, Tail(ids), path)
         IN  [instruction |-> first.instruction \o rest.instruction,
              tools |-> first.tools \o rest.tools,
              overflow |-> first.overflow \/ rest.overflow]

\* const collectContext = (project, activeNodeIds) => ({ instruction, tools })
collectContext(p, activeNodeIds) ==
    IF ~Has(p, p.rootNodeId)
    THEN [instruction |-> <<Block("System Error: Root missing.", None)>>,
          tools |-> <<>>, overflow |-> FALSE]
    ELSE LET walk == traverse(p, activeNodeIds, p.rootNodeId, {})
         IN  [instruction |-> walk.instruction,
              tools |-> systemTools \o walk.tools,
              overflow |-> walk.overflow]

\* Mutant of convertToolsToOpenAI: a search entry is reshaped like the
\* others instead of being skipped.
RECURSIVE convertToolsToOpenAI_KeepsSearch(_)
convertToolsToOpenAI_KeepsSearch(googleTools) ==
    IF googleTools = <<>> THEN <<>>
    ELSE LET t == Head(googleTools)
             fns == IF t.kind = "googleSearch"
                    THEN <<[kind |-> "function", names |-> <<"googleSearch">>]>>
                    ELSE [i \in 1..Len(t.names) |->
                             [kind |-> "function", names |-> <<t.names[i]>>]]
         IN  fns \o convertToolsToOpenAI_KeepsSearch(Tail(googleTools))

\* const convertToolsToOpenAI = (googleTools) => openAITools
RECURSIVE convertToolsToOpenAI(_)
convertToolsToOpenAI(googleTools) ==
    IF googleTools = <<>> THEN <<>>
    ELSE LET t == Head(googleTools)
             fns == IF t.kind = "googleSearch" THEN <<>>
                    ELSE [i \in 1..Len(t.names) |->
                             [kind |-> "function", names |-> <<t.names[i]>>]]
         IN  fns \o convertToolsToOpenAI(Tail(googleTools))

\* A value that JavaScript takes as false in `!apiKey` and `a || b`.
Falsy(x) == x \in {None, ""}

\* Mutant of safeApiKey: the proxy's dummy key for every provider.
safeApiKey_DummyForAll(rootNode, env) ==
    LET apiKey == IF Falsy(rootNode.apiKey) THEN env ELSE rootNode.apiKey
    IN  IF ~Falsy(apiKey) THEN apiKey ELSE "sk-dummy-key-for-proxy"

\* let apiKey = rootNode.apiKey; if (!apiKey) apiKey = env key;
\* const safeApiKey = apiKey || (provider === 'litellm' ? dummy : undefined)
safeApiKey(rootNode, env) ==
    LET apiKey == IF Falsy(rootNode.apiKey) THEN env ELSE rootNode.apiKey
    IN  IF ~Falsy(apiKey) THEN apiKey
        ELSE IF rootNode.provider = "litellm" THEN "sk-dummy-key-for-proxy"
        ELSE None

\* streamResponse up to the call of the driver: the request handed to it, or
\* the exception that its catch block reports through onError.
streamResponse(p, activeNodeIds, env) ==
    LET rootNode == p.nodes[p.rootNodeId]
        context == collectContext(p, activeNodeIds)
    IN  IF ~Has(p, p.rootNodeId) THEN [outcome |-> "error"]   \* rootNode.apiKey
        ELSE IF context.overflow THEN [outcome |-> "error"]
        ELSE IF Falsy(safeApiKey(rootNode, env)) THEN [outcome |-> "error"]
        ELSE IF rootNode.provider \in {None, "google"}
        THEN [outcome |-> "request", driver |-> "google",
              instruction |-> context.instruction, tools |-> context.tools,
              apiKey |-> safeApiKey(rootNode, env)]
        ELSE [outcome |-> "request", driver |-> "universal",
              instruction |-> context.instruction,
              tools |-> convertToolsToOpenAI(context.tools),
              apiKey |-> safeApiKey(rootNode, env)]

\* ---------------------------------------------------------------- state
VARIABLES
    project,            \* useState: the live Node Store
    isSimulating,       \* useState
    simulatedProject,   \* useState: <<>> is null, <<p>> a fork
    activeContextIds,   \* useState: the stored active set
    isLoading,          \* useState
    session,            \* the session's messages since the last model message
    sessions,           \* useState<ChatSession[]>: the session list
    activeSessionId,    \* useState<string>
    hasElectron,        \* window.electron is present
    stream,             \* the lines the driver has read from the response
    envKey,             \* VITE_API_KEY / process.env.API_KEY of the build
    request,            \* the request handed to the driver: <<>> is none
    accumulatedText,    \* processChatTurn: accumulatedText
    pc,                 \* where the turn in flight is
    closure,            \* the state captured by the render the turn started in
    runtimeProject,     \* processChatTurn: runtimeProject
    stack,              \* processChatTurn: stack
    currentHistory,     \* processChatTurn: currentHistory since the last batch
    buffered,           \* the driver's buffer of tool calls (let toolCalls = [])
    toolCalls,          \* onToolCall: the batch
    callIdx,            \* onToolCall: position of the for loop
    nextProject,        \* onToolCall: nextProject
    nextStack,          \* onToolCall: nextStack
    modified,           \* onToolCall: modified
    triggeredSimulationChange,
    newHistory,         \* onToolCall: newHistory from the batch's model message
    awaited,            \* the node whose code the tool runner is executing
    uuidCount,          \* ids drawn from uuid() so far
    calls,              \* tool calls requested so far
    uiOps,              \* banner clicks so far
    onErrorCalls,       \* calls of the turn's onError callback
    dispatches          \* requests sent by the turn's current phase

vars ==
    <<project, isSimulating, simulatedProject, activeContextIds, isLoading,
      session, sessions, activeSessionId, hasElectron, envKey, stream, request, accumulatedText, pc,
      closure,
      runtimeProject, stack, currentHistory, buffered, toolCalls, callIdx, nextProject, nextStack, modified,
      triggeredSimulationChange, newHistory, awaited, uuidCount, calls,
      uiOps, onErrorCalls, dispatches>>

reactVars == <<project, isSimulating, simulatedProject, session>>
loopVars ==
    <<toolCalls, nextProject, nextStack, modified, triggeredSimulationChange,
      newHistory>>

\* const activeProject = isSimulating && simulatedProject ? simulatedProject : project
activeProjectOf(sim, fork, live) ==
    IF sim /\ fork # <<>> THEN fork[1] ELSE live

activeProject == activeProjectOf(isSimulating, simulatedProject, project)

\* What the closures of a render read.
Render ==
    [project |-> project, isSimulating |-> isSimulating,
     simulatedProject |-> simulatedProject, activeContextIds |-> activeContextIds]

\* The state after the load effects have run on the stored project p, with
\* the stored active set ids.
InitFrom(p, ids, electron, env) ==
    /\ project = p
    /\ isSimulating = FALSE
    /\ simulatedProject = <<>>
    /\ activeContextIds = ids
    /\ isLoading = FALSE
    /\ session = <<>>
    /\ sessions = <<Session("default")>>
    /\ activeSessionId = "default"
    /\ hasElectron = electron
    /\ stream = <<>>
    /\ envKey = env
    /\ request = <<>>
    /\ accumulatedText = ""
    /\ pc = "idle"
    /\ closure = [project |-> p, isSimulating |-> FALSE,
                  simulatedProject |-> <<>>, activeContextIds |-> ids]
    /\ runtimeProject = p
    /\ stack = <<>>
    /\ currentHistory = <<>>
    /\ buffered = <<>>
    /\ toolCalls = <<>>
    /\ callIdx = 1
    /\ nextProject = p
    /\ nextStack = <<>>
    /\ modified = FALSE
    /\ triggeredSimulationChange = FALSE
    /\ newHistory = <<>>
    /\ awaited = None
    /\ uuidCount = 0
    /\ calls = 0
    /\ uiOps = 0
    /\ onErrorCalls = 0
    /\ dispatches = 0

\* setActiveContextIds(Object.keys(activeProject.nodes)) of the init effect.
InitWith(electron) == InitFrom(savedProject, savedProject.order, electron, None)

\* The application in the browser (window.electron undefined).
Init == InitWith(FALSE)

\* The application in the browser or in the desktop shell.
InitLoop == \E electron \in BOOLEAN : InitWith(electron)

\* ------------------------------------------------- simulation handlers
\* The handlers work on a record st of the state they may write (the React
\* state project, isSimulating, simulatedProject, session; the locals of
\* onToolCall) and read the captured render cl.

\* addLog: setMessages(prev => [...prev, msg])
addLog(st, source, type) ==
    [st EXCEPT !.session = Append(@, LogMsg(source, type))]

\* const startSimulation = () => { ... }
startSimulation(cl, st) ==
    addLog([st EXCEPT !.simulatedProject = <<DeepCopy(cl.project)>>,
                      !.isSimulating = TRUE],
           "HYPERVISOR", "success")

\* const commitSimulation = () => { if (simulatedProject) { ... } }
commitSimulation(cl, st) ==
    IF cl.simulatedProject # <<>>
    THEN addLog([st EXCEPT !.project = cl.simulatedProject[1],
                           !.isSimulating = FALSE,
                           !.simulatedProject = <<>>],
                "HYPERVISOR", "success")
    ELSE st

\* const abortSimulation = () => { ... }
abortSimulation(cl, st) ==
    addLog([st EXCEPT !.isSimulating = FALSE, !.simulatedProject = <<>>],
           "HYPERVISOR", "info")

\* const setActiveProject = (newValue) => { if (isSimulating) ... else ... }
setActiveProject(cl, st, newValue) ==
    IF cl.isSimulating
    THEN [st EXCEPT !.simulatedProject = <<newValue>>]
    ELSE [st EXCEPT !.project = newValue]

\* ------------------------------------------------------ the tool loop
\* One iteration of `for (const call of toolCalls)` up to its first await.
\* st.outcome: "result" (st.result is pushed as the call's tool result),
\* "await" (the tool runner was called), "crash" (an exception left the
\* callback).

\* if (call.name === 'manage_simulation') { ... }
execManageSimulation(call, cl, st) ==
    IF ~call.hasArgs
    THEN [st EXCEPT !.outcome = "crash"]           \* args.action of null
    ELSE IF call.action = "start"
    THEN [startSimulation(cl, st) EXCEPT
              !.triggeredSimulationChange = TRUE,
              !.nextProject = DeepCopy(st.nextProject),
              !.result = RStarted]
    ELSE IF call.action = "commit"
    THEN [commitSimulation(cl, st) EXCEPT
              !.triggeredSimulationChange = TRUE,
              !.result = RCommitted]
    ELSE IF call.action = "abort"
    THEN [abortSimulation(cl, st) EXCEPT
              !.triggeredSimulationChange = TRUE,
              !.result = RAborted]
    ELSE st

\* catch (e) { result = `Error: ${e.message}`; addLog(...) }
nodeError(st, result) ==
    addLog([st EXCEPT !.result = result], "ORCHESTRATOR", "error")

\* Mutant of nodeCreate: the node is stored before the parent is looked up.
nodeCreate_StoreFirst(call, st) ==
    LET newId == uuid(st.uuidCount + 1)
        parentId == IF call.parentId # None THEN call.parentId
                    ELSE st.nextProject.rootNodeId
        newNode == Node(newId, parentId, call.type, "AI_Generated_Node",
                        "javascript", call.content, call.content)
        s1 == [st EXCEPT !.uuidCount = @ + 1,
                         !.nextProject = PutNode(st.nextProject, newId, newNode),
                         !.nextStack = Append(st.nextStack, newId)]
    IN  IF ~Has(st.nextProject, parentId)
        THEN nodeError(s1, RErrParent)
        ELSE [addLog(s1, "ORCHESTRATOR", "success") EXCEPT
                  !.result = RCreated, !.modified = TRUE]

\* if (args.action === 'create') { ... }
nodeCreate(call, st) ==
    LET newId == uuid(st.uuidCount + 1)
        s1 == [st EXCEPT !.uuidCount = @ + 1]
        parentId == IF call.parentId # None THEN call.parentId
                    ELSE st.nextProject.rootNodeId
        newNode == [Node(newId, parentId, call.type,
                         IF call.nname # None THEN call.nname
                         ELSE "AI_Generated_Node",
                         IF call.language # None THEN call.language
                         ELSE "javascript",
                         call.content, call.content)
                       EXCEPT !.provider = "google"]
    IN  IF ~Has(st.nextProject, parentId)
        THEN nodeError(s1, RErrParent)
        ELSE [addLog(s1, "ORCHESTRATOR", "success") EXCEPT
                  !.nextProject = PutNode(st.nextProject, newId, newNode),
                  !.nextStack = Append(st.nextStack, newId),
                  !.result = RCreated,
                  !.modified = TRUE]

\* else if (args.action === 'update') { ... }
nodeUpdate(call, st) ==
    IF ~Has(st.nextProject, call.nodeId)
    THEN nodeError(st, RErrNode)
    ELSE LET node == st.nextProject.nodes[call.nodeId]
             upd == [node EXCEPT
                       !.name = IF call.nname # None THEN call.nname ELSE @,
                       !.systemInstruction =
                           IF call.content # None THEN call.content ELSE @,
                       !.memoryContent =
                           IF call.content # None THEN call.content ELSE @,
                       !.parentId = IF call.parentId # None THEN call.parentId ELSE @]
         IN  [addLog(st, "ORCHESTRATOR", "info") EXCEPT
                  !.nextProject = PutNode(st.nextProject, call.nodeId, upd),
                  !.result = RUpdated,
                  !.modified = TRUE]

\* else if (args.action === 'delete') { ... }
nodeDelete(call, st) ==
    IF ~Has(st.nextProject, call.nodeId)
    THEN nodeError(st, RErrNode)
    ELSE [addLog(st, "ORCHESTRATOR", "info") EXCEPT
              !.nextProject = DeleteNode(st.nextProject, call.nodeId),
              !.nextStack = Without(st.nextStack, call.nodeId),
              !.result = RDeleted,
              !.modified = TRUE]

\* else if (call.name === 'manage_node') { try { ... } catch (e) { ... } }
execManageNode(call, st) ==
    IF ~call.hasArgs THEN nodeError(st, RErrType)    \* thrown inside the try
    ELSE IF call.action = "create" THEN nodeCreate(call, st)
    ELSE IF call.action = "update" THEN nodeUpdate(call, st)
    ELSE IF call.action = "delete" THEN nodeDelete(call, st)
    ELSE st

\* Object.values(nextProject.nodes).find(n => sanitize(n.name) === toolName)
\* : the position in key order of the first match, 0 when there is none.
findTarget(p, toolName) ==
    LET hits == {i \in 1..Len(p.order) :
                    sanitizeName(p.nodes[p.order[i]].name) = toolName}
    IN  IF hits = {} THEN 0 ELSE CHOOSE i \in hits : \A j \in hits : i <= j

\* else { const toolName = call.name; ... } up to the await of the runner
execRuntime(call, electron, st) ==
    LET at == findTarget(st.nextProject, call.name)
        targetNode == st.nextProject.nodes[st.nextProject.order[at]]
    IN  IF at = 0
        THEN addLog([st EXCEPT !.result = RNotFound], "RUNTIME", "error")
        ELSE LET s1 == addLog(st, "RUNTIME", "info")
             IN  IF targetNode.language = "python" /\ ~electron
                 THEN \* throw new Error("Python execution requires ...")
                      addLog([s1 EXCEPT !.result = RException], "RUNTIME", "error")
                 ELSE [s1 EXCEPT !.outcome = "await", !.awaited = targetNode.id]

\* let result = 'Action failed'; if ... else if ... else ...
execCall(call, cl, electron, st) ==
    LET s0 == [st EXCEPT !.result = RActionFailed, !.outcome = "result"]
    IN  IF call.name = "manage_simulation" THEN execManageSimulation(call, cl, s0)
        ELSE IF call.name = "manage_node" THEN execManageNode(call, s0)
        ELSE execRuntime(call, electron, s0)

\* The runner came back: how the awaited code ended.
\* "returns", "throwsError" (a thrown object with a message, or any value
\* whose .message can be read), "throwsNullish" (throw null / undefined:
\* e.message in the catch block throws in turn).
ToolEndings == {"returns", "throwsError", "throwsNullish"}

resumeRuntime(ending, language, st) ==
    LET s0 == [st EXCEPT !.outcome = "result", !.awaited = None]
    IN  IF ending = "returns"
        THEN addLog([s0 EXCEPT !.result = RToolOutput],
                    IF language = "python" THEN "STDOUT" ELSE "RUNTIME", "success")
        ELSE IF ending = "throwsError"
        THEN addLog([s0 EXCEPT !.result = RException], "RUNTIME", "error")
        ELSE [s0 EXCEPT !.outcome = "crash"]

\* Mutant of pushResponse: a call whose tool was not found gets no result.
pushResponse_SkipNotFound(call, st) ==
    IF st.result = RNotFound THEN st
    ELSE [st EXCEPT !.newHistory = Append(@, ToolResponseMsg(call, st.result)),
                    !.session = Append(@, ToolResponseMsg(call, st.result))]

\* Mutant of pushResponse: the result is put before the earlier results.
pushResponse_Front(call, st) ==
    [st EXCEPT !.newHistory = <<Head(@), ToolResponseMsg(call, st.result)>> \o Tail(@),
               !.session = Append(@, ToolResponseMsg(call, st.result))]

\* const toolResponseMsg = {...}; newHistory.push(...); updateSessionMessages(...)
pushResponse(call, st) ==
    [st EXCEPT !.newHistory = Append(@, ToolResponseMsg(call, st.result)),
               !.session = Append(@, ToolResponseMsg(call, st.result))]

\* -------------------------------------------------------------- actions
\* The state the handlers may write, as a record.
St ==
    [project |-> project, isSimulating |-> isSimulating,
     simulatedProject |-> simulatedProject, session |-> session,
     nextProject |-> nextProject, nextStack |-> nextStack,
     modified |-> modified,
     triggeredSimulationChange |-> triggeredSimulationChange,
     newHistory |-> newHistory, uuidCount |-> uuidCount, awaited |-> awaited,
     result |-> RActionFailed, outcome |-> "result"]

Written(st) ==
    /\ project' = st.project
    /\ isSimulating' = st.isSimulating
    /\ simulatedProject' = st.simulatedProject
    /\ session' = st.session
    /\ nextProject' = st.nextProject
    /\ nextStack' = st.nextStack
    /\ modified' = st.modified
    /\ triggeredSimulationChange' = st.triggeredSimulationChange
    /\ newHistory' = st.newHistory
    /\ uuidCount' = st.uuidCount
    /\ awaited' = st.awaited

\* Suspension points of the turn: the stream read and the tool runner.  Only
\* there (or with no turn in flight) can a click be handled.
Suspended == pc # "executing"

\* processChatTurn up to the await of the request: the placeholder message,
\* runtimeProject, stack, and streamResponse up to the driver's request.  A
\* project without its root node throws in streamResponse (rootNode.apiKey)
\* and ends in onError before any request.
processChatTurn(history, contextFilter, runtime, sess) ==
    /\ runtimeProject' = runtime
    /\ stack' = contextFilter
    /\ currentHistory' = history
    /\ buffered' = <<>>
    /\ stream' = <<>>
    /\ accumulatedText' = ""
    /\ LET sent == streamResponse(runtime, contextFilter, envKey)
       IN  IF sent.outcome = "request"
           THEN /\ pc' = "streaming"
                /\ dispatches' = 1
                /\ request' = <<sent>>
                /\ session' = Append(sess, Placeholder)
                /\ UNCHANGED <<isLoading, onErrorCalls>>
           ELSE /\ pc' = "failed"
                /\ dispatches' = 0
                /\ request' = <<>>
                /\ session' = Append(sess, ModelMsg(ErrorText, <<>>))
                /\ isLoading' = FALSE
                /\ onErrorCalls' = onErrorCalls + 1

\* Mutant of handleSend: the loading flag is not tested.
handleSend_NoGuard(focusMode) ==
    /\ closure' = Render
    /\ callIdx' = 1
    /\ LET overlayFilter == <<activeProject.selectedNodeId>>
           contextFilter == IF focusMode THEN overlayFilter ELSE activeContextIds
           sent == streamResponse(activeProject, contextFilter, envKey)
       IN  /\ runtimeProject' = activeProject
           /\ stack' = contextFilter
           /\ IF sent.outcome = "request"
              THEN /\ isLoading' = TRUE
                   /\ onErrorCalls' = 0
                   /\ pc' = "streaming"
                   /\ dispatches' = 1
                   /\ request' = <<sent>>
                   /\ session' = <<Msg("user", None, None, <<>>), Placeholder>>
              ELSE /\ isLoading' = FALSE
                   /\ onErrorCalls' = 1
                   /\ pc' = "failed"
                   /\ dispatches' = 0
                   /\ request' = <<>>
                   /\ session' = <<Msg("user", None, None, <<>>),
                                   ModelMsg(ErrorText, <<>>)>>
    /\ currentHistory' = <<Msg("user", None, None, <<>>)>>
    /\ buffered' = <<>>
    /\ stream' = <<>>
    /\ accumulatedText' = ""
    /\ UNCHANGED <<project, isSimulating, simulatedProject, activeContextIds,
                   sessions, activeSessionId, hasElectron, envKey, uuidCount, uiOps, awaited, calls>>
    /\ UNCHANGED loopVars

\* const handleSend = async (input, image, focusMode) => { ... }
handleSend(focusMode) ==
    /\ ~isLoading
    /\ closure' = Render
    /\ callIdx' = 1
    /\ LET overlayFilter == <<activeProject.selectedNodeId>>
           contextFilter == IF focusMode THEN overlayFilter ELSE activeContextIds
           sent == streamResponse(activeProject, contextFilter, envKey)
       IN  /\ runtimeProject' = activeProject
           /\ stack' = contextFilter
           /\ IF sent.outcome = "request"
              THEN /\ isLoading' = TRUE
                   /\ onErrorCalls' = 0
                   /\ pc' = "streaming"
                   /\ dispatches' = 1
                   /\ request' = <<sent>>
                   /\ session' = <<Msg("user", None, None, <<>>), Placeholder>>
              ELSE /\ isLoading' = FALSE
                   /\ onErrorCalls' = 1
                   /\ pc' = "failed"
                   /\ dispatches' = 0
                   /\ request' = <<>>
                   /\ session' = <<Msg("user", None, None, <<>>),
                                   ModelMsg(ErrorText, <<>>)>>
    /\ currentHistory' = <<Msg("user", None, None, <<>>)>>
    /\ buffered' = <<>>
    /\ stream' = <<>>
    /\ accumulatedText' = ""
    /\ UNCHANGED <<project, isSimulating, simulatedProject, activeContextIds,
                   sessions, activeSessionId, hasElectron, envKey, uuidCount, uiOps, awaited, calls>>
    /\ UNCHANGED loopVars

\* prev.map(m => m.id === aiMsgId ? ... : m): the position in the session of
\* the message that the phase in flight writes to, the last model message.
aiMsgIndex(sess) ==
    CHOOSE i \in 1..Len(sess) :
        /\ sess[i].role = "model"
        /\ \A j \in (i + 1)..Len(sess) : sess[j].role # "model"

\* The calls the driver hands over at the end of the stream: the native
\* driver its buffer, the universal driver the entries of toolCallBuffer
\* whose arguments parse (.map(JSON.parse ... catch null).filter(t => t)).
IsParsable(call) == call.parsable
finalToolCalls(buffer) == SelectSeq(buffer, IsParsable)

\* (chunk, metadata) => { if (chunk) accumulatedText += chunk;
\*   ... { ...m, content: m.content + (chunk || ""), groundingMetadata: metadata } }
\* The drivers call onChunk(text) and onChunk("", groundingMetadata).
onChunk(chunk, metadata, maxText) ==
    /\ pc = "streaming"
    /\ Len(accumulatedText) < maxText
    /\ accumulatedText' = accumulatedText \o chunk
    /\ session' = [session EXCEPT
                      ![aiMsgIndex(session)].content = @ \o chunk,
                      ![aiMsgIndex(session)].groundingMetadata = metadata]
    /\ UNCHANGED <<project, isSimulating, simulatedProject, activeContextIds,
                   isLoading, sessions, activeSessionId, hasElectron, envKey, stream, request, pc, closure,
                   runtimeProject, stack, currentHistory, buffered, callIdx,
                   awaited, uuidCount, calls, uiOps, onErrorCalls, dispatches>>
    /\ UNCHANGED loopVars

\* Mutant of onComplete: called whatever the driver has buffered.
onComplete_IgnoresBuffer ==
    /\ pc = "streaming"
    /\ pc' = "completed"
    /\ isLoading' = FALSE
    /\ UNCHANGED <<project, isSimulating, simulatedProject, activeContextIds,
                   session, sessions, activeSessionId, hasElectron, envKey, stream, request, accumulatedText, closure, runtimeProject, stack,
                   currentHistory, buffered, callIdx, awaited, uuidCount, calls,
                   uiOps, onErrorCalls, dispatches>>
    /\ UNCHANGED loopVars

\* The driver's stream ended with no tool call to hand over:
\* callbacks.onComplete()
onComplete ==
    /\ pc = "streaming"
    /\ finalToolCalls(buffered) = <<>>
    /\ pc' = "completed"
    /\ isLoading' = FALSE
    /\ UNCHANGED <<project, isSimulating, simulatedProject, activeContextIds,
                   session, sessions, activeSessionId, hasElectron, envKey, stream, request, accumulatedText, closure, runtimeProject, stack,
                   currentHistory, buffered, callIdx, awaited, uuidCount, calls,
                   uiOps, onErrorCalls, dispatches>>
    /\ UNCHANGED loopVars

\* Mutant of onError: the request is sent again.
onError_Retry ==
    /\ pc = "streaming"
    /\ pc' = "streaming"
    /\ dispatches' = dispatches + 1
    /\ UNCHANGED <<project, isSimulating, simulatedProject, activeContextIds,
                   isLoading, session, sessions, activeSessionId, hasElectron, envKey, stream, request, accumulatedText, closure, runtimeProject,
                   stack, currentHistory, buffered, callIdx, awaited,
                   uuidCount, calls, uiOps, onErrorCalls>>
    /\ UNCHANGED loopVars

\* A non-2xx response or a connection error: the driver throws, the catch of
\* executeUniversalRequest (or of streamResponse) calls onError(e).
\* onError: setIsLoading(false); the message shows the error.
onError ==
    /\ pc = "streaming"
    /\ pc' = "failed"
    /\ isLoading' = FALSE
    /\ onErrorCalls' = onErrorCalls + 1
    /\ session' = [session EXCEPT ![aiMsgIndex(session)].content = ErrorText]
    /\ UNCHANGED <<project, isSimulating, simulatedProject, activeContextIds,
                   sessions, activeSessionId, hasElectron, envKey, stream, request, accumulatedText, closure, runtimeProject, stack, currentHistory,
                   buffered, callIdx, awaited, uuidCount, calls, uiOps,
                   dispatches>>
    /\ UNCHANGED loopVars

\* The stream yields a tool call: toolCalls.push(part.functionCall), or a
\* fragment that completes an entry of toolCallBuffer.
onPart(call, budget) ==
    /\ pc = "streaming"
    /\ calls < budget
    /\ call.parsable \/ request[1].driver = "universal"
    /\ calls' = calls + 1
    /\ buffered' = Append(buffered, call)
    /\ UNCHANGED <<project, isSimulating, simulatedProject, activeContextIds,
                   isLoading, session, sessions, activeSessionId, hasElectron, envKey, stream, request, accumulatedText, pc, closure, runtimeProject,
                   stack, currentHistory, callIdx, awaited, uuidCount, uiOps,
                   onErrorCalls, dispatches>>
    /\ UNCHANGED loopVars

\* The driver's stream ended with buffered tool calls
\* (if (toolCalls.length > 0) callbacks.onToolCall(toolCalls)): the head of
\* the onToolCall callback, up to the for loop.
onToolCall ==
    /\ pc = "streaming"
    /\ finalToolCalls(buffered) # <<>>
    /\ pc' = "executing"
    /\ toolCalls' = finalToolCalls(buffered)
    /\ callIdx' = 1
    /\ nextProject' = runtimeProject      \* { ...runtimeProject, nodes: {...} }
    /\ nextStack' = stack
    /\ modified' = FALSE
    /\ triggeredSimulationChange' = FALSE
    /\ LET aiMsg == session[aiMsgIndex(session)]
           content == IF aiMsg.content = "" THEN Executing ELSE aiMsg.content
           historyContent == IF accumulatedText = "" THEN ThoughtComplete
                             ELSE accumulatedText
       IN  /\ session' = <<[aiMsg EXCEPT !.content = content,
                                          !.toolCalls = finalToolCalls(buffered)]>>
           \* [...currentHistory, model message]
           /\ newHistory' = <<ModelMsg(historyContent, finalToolCalls(buffered))>>
    /\ UNCHANGED <<project, isSimulating, simulatedProject, activeContextIds,
                   isLoading, sessions, activeSessionId, hasElectron, envKey, stream, request, accumulatedText, closure, runtimeProject, stack,
                   currentHistory, buffered, awaited, uuidCount, uiOps, calls,
                   onErrorCalls, dispatches>>

\* After the body of the loop for one call: its tool result, or the await,
\* or the exception.
Continue(st) ==
    IF st.outcome = "result"
    THEN /\ Written(pushResponse(toolCalls[callIdx], st))
         /\ callIdx' = callIdx + 1
         /\ pc' = "executing"
    ELSE /\ Written(st)
         /\ callIdx' = callIdx
         /\ pc' = IF st.outcome = "await" THEN "awaitingTool" ELSE "crashed"

\* One call of the batch, to its tool result or to the await of the runner.
ExecCall ==
    /\ pc = "executing"
    /\ callIdx <= Len(toolCalls)
    /\ Continue(execCall(toolCalls[callIdx], closure, hasElectron, St))
    /\ UNCHANGED <<activeContextIds, isLoading, sessions, activeSessionId, hasElectron, envKey, stream, request, accumulatedText, closure,
                   runtimeProject, stack, currentHistory, buffered, toolCalls,
                   calls, uiOps, onErrorCalls, dispatches>>

\* The tool runner (func(call.args, print) or window.electron.runScript)
\* settles.
ToolReturn(ending) ==
    /\ pc = "awaitingTool"
    /\ Continue(resumeRuntime(ending, nextProject.nodes[awaited].language, St))
    /\ UNCHANGED <<activeContextIds, isLoading, sessions, activeSessionId, hasElectron, envKey, stream, request, accumulatedText, closure,
                   runtimeProject, stack, currentHistory, buffered, toolCalls,
                   calls, uiOps, onErrorCalls, dispatches>>

\* After the loop: if (modified && !triggeredSimulationChange) {...}, then
\* await processChatTurn(targetSessionId, newHistory, null, undefined,
\* nextStack, nextProject).
Recurse ==
    /\ pc = "executing"
    /\ callIdx > Len(toolCalls)
    /\ LET write == modified /\ ~triggeredSimulationChange
           st == IF write THEN setActiveProject(closure, St, nextProject) ELSE St
       IN  /\ project' = st.project
           /\ simulatedProject' = st.simulatedProject
           /\ activeContextIds' = IF write THEN nextStack ELSE activeContextIds
           /\ processChatTurn(newHistory, nextStack, nextProject, session)
    /\ UNCHANGED <<isSimulating, sessions, activeSessionId, hasElectron, envKey, closure, callIdx, awaited,
                   uuidCount, calls, uiOps>>
    /\ UNCHANGED loopVars

\* A click on "Commit to Live" of the simulation banner (shown while
\* isSimulating), handled by the current render.
UICommit ==
    /\ Suspended
    /\ isSimulating
    /\ uiOps < MaxUiOps
    /\ uiOps' = uiOps + 1
    /\ Written(commitSimulation(Render, St))
    /\ UNCHANGED <<activeContextIds, isLoading, sessions, activeSessionId, hasElectron, envKey, stream, request, accumulatedText, pc, closure,
                   runtimeProject, stack, currentHistory, buffered, toolCalls,
                   callIdx, calls, onErrorCalls, dispatches>>

\* A click on "Abort" of the banner, or the error boundary's reset
\* (onReset={abortSimulation}), handled by the current render.
UIAbort ==
    /\ Suspended
    /\ uiOps < MaxUiOps
    /\ uiOps' = uiOps + 1
    /\ Written(abortSimulation(Render, St))
    /\ UNCHANGED <<activeContextIds, isLoading, sessions, activeSessionId, hasElectron, envKey, stream, request, accumulatedText, pc, closure,
                   runtimeProject, stack, currentHistory, buffered, toolCalls,
                   callIdx, calls, onErrorCalls, dispatches>>

\* NodeInspector.getPotentialParents: the parents the selector offers for the
\* node localId.
getPotentialParents(p, localId) ==
    {k \in DOMAIN p.nodes :
        /\ p.nodes[k].type \in {"AGENT", "ROUTER", "TOOL"} \/ k = p.rootNodeId
        /\ k # localId
        /\ p.nodes[k].parentId # localId}

\* NodeInspector: a parent picked in the "Attached To (Parent)" selector of
\* a node other than the root, then handleSave:
\* setProject(prev => ({...prev, nodes: {...prev.nodes, [localNode.id]: localNode}}))
\* where setProject is the current render's setActiveProject.
InspectorSave ==
    /\ Suspended
    /\ uiOps < MaxUiOps
    /\ uiOps' = uiOps + 1
    /\ \E id \in (DOMAIN activeProject.nodes) \ {activeProject.rootNodeId} :
         \E parentId \in getPotentialParents(activeProject, id) :
            LET localNode == [activeProject.nodes[id] EXCEPT !.parentId = parentId]
            IN  Written(setActiveProject(Render, St,
                                         PutNode(activeProject, id, localNode)))
    /\ UNCHANGED <<activeContextIds, isLoading, sessions, activeSessionId, hasElectron, envKey, stream, request,
                   accumulatedText, pc, closure, runtimeProject, stack,
                   currentHistory, buffered, toolCalls, callIdx, calls,
                   onErrorCalls, dispatches>>

\* ------------------------------------------------------------- inputs
\* The calls a model response may request, by specification.
SimCalls ==
    {ManageSimulation("start"), ManageSimulation("commit"),
     ManageSimulation("abort"),
     ManageNode("create", None, None, "MEMORY", "Memo", "c1"),
     ManageNode("delete", Root, None, None, None, None)}

\* The calls of SpecLoop: unknown tools, unknown actions, missing arguments,
\* missing nodes, tools that run.
LoopCalls ==
    {NoArgs("manage_simulation"), ManageSimulation("bogus"),
     ManageNode("create", None, "ghost", "MEMORY", "Memo", "c1"),
     ManageNode("update", "ghost", None, None, None, "c1"),
     ManageNode("delete", "ghost", None, None, None, None),
     ManageNode("delete", "tjs", None, None, None, None),
     NoArgs("manage_node"),
     ToolCall("Get_Time"), ToolCall("Py_Tool"), ToolCall("nope")}

\* A submission from the chat panel (handleSend(input)) or from the overlay
\* (handleSend(input, image, focusMode)).
Submit == \E focusMode \in BOOLEAN : handleSend(focusMode)

Next ==
    \/ handleSend(FALSE)
    \/ \E call \in SimCalls : onPart(call, MaxCalls)
    \/ onComplete
    \/ onError
    \/ onToolCall
    \/ ExecCall
    \/ Recurse
    \/ UICommit
    \/ UIAbort

Spec == Init /\ [][Next]_vars

NextLoop ==
    \/ handleSend(FALSE)
    \/ \E call \in LoopCalls : onPart(call, MaxLoopCalls)
    \/ onComplete
    \/ onError
    \/ onToolCall
    \/ ExecCall
    \/ \E ending \in ToolEndings : ToolReturn(ending)
    \/ Recurse

SpecLoop == InitLoop /\ [][NextLoop]_vars

\* What the runtime schedules by itself once a turn is in flight: the stream
\* of a request ends (for await ... of responseStream / reader.read() reports
\* done, or the request throws), the driver then calls the callback, the loop
\* over the batch goes on after every await, and the tool runner settles.
\* A new submission is the user's choice and is not scheduled.
LoopFairness ==
    /\ WF_vars(onComplete \/ onError)
    /\ WF_vars(onToolCall)
    /\ WF_vars(ExecCall)
    /\ WF_vars(\E ending \in ToolEndings : ToolReturn(ending))
    /\ WF_vars(Recurse)

SpecLoopFair == InitLoop /\ [][NextLoop]_vars /\ LoopFairness

\* ------------------------------------------------- the universal driver
\* `call_${m.id}_${i}`: the position of the message in the history stands
\* for its id.
CallId(msgId, i) == <<"call", msgId, i>>

\* lastModelToolCalls.findIndex(tc => tc.name === name), -1 when none.
findIndex(list, name) ==
    LET hits == {i \in 1..Len(list) : list[i].name = name}
    IN  IF hits = {} THEN -1
        ELSE (CHOOSE i \in hits : \A j \in hits : i <= j) - 1

\* The body of for (const m of history) { ... } for the message at position
\* k: the message pushed, with lastModelToolCalls and lastModelMsgId.
mapMessage(acc, m, k) ==
    IF m.role = "model" /\ m.toolCalls # <<>>
    THEN [messages |-> Append(acc.messages,
              [role |-> "assistant",
               tool_calls |-> [i \in 1..Len(m.toolCalls) |->
                                  [id |-> CallId(k, i - 1),
                                   name |-> m.toolCalls[i].name]],
               tool_call_id |-> None]),
          lastModelToolCalls |-> m.toolCalls,
          lastModelMsgId |-> k]
    ELSE IF m.role = "tool"
    THEN LET callIndex == findIndex(acc.lastModelToolCalls, m.name)
             syntheticId == CallId(acc.lastModelMsgId,
                                   IF callIndex # -1 THEN callIndex ELSE 0)
         IN  [acc EXCEPT !.messages = Append(@,
                  [role |-> "tool", tool_calls |-> <<>>,
                   tool_call_id |-> syntheticId])]
    ELSE [acc EXCEPT !.messages = Append(@,
              [role |-> IF m.role = "user" THEN "user" ELSE "assistant",
               tool_calls |-> <<>>, tool_call_id |-> None])]

\* Smart History Mapping: the messages of the request body, after the
\* system message.
RECURSIVE mapHistory(_, _)
mapHistory(history, k) ==
    IF k = 0
    THEN [messages |-> <<>>, lastModelToolCalls |-> <<>>, lastModelMsgId |-> 0]
    ELSE mapMessage(mapHistory(history, k - 1), history[k], k)

historyMessages(history) == mapHistory(history, Len(history)).messages

\* A line "data: {...}" of the response: delta.content (None when absent)
\* and delta.tool_calls.
DataLine(content, tool_calls) ==
    [kind |-> "data", content |-> content, tool_calls |-> tool_calls]

\* A line "data: ..." that JSON.parse rejects.
MalformedLine == [kind |-> "malformed", content |-> None, tool_calls |-> <<>>]

\* An element of delta.tool_calls: {index, function: {name, arguments}}.
Fragment(index, name, arguments) ==
    [index |-> index, name |-> name, arguments |-> arguments]

\* JSON.parse of an argument text: the texts that parse, with their values.
JsonTable ==
    ("{\"a\":1,\"b\":2}" :> [a |-> 1, b |-> 2]) @@
    ("{\"a\":1}" :> [a |-> 1]) @@
    ("{}" :> [empty |-> TRUE])

IsJson(text) == text \in DOMAIN JsonTable

\* Mutant of accumulate: the fragment is put before the text so far.
accumulate_Prepends(toolCallBuffer, tc) ==
    LET idx == tc.index
        old == IF idx \in DOMAIN toolCallBuffer THEN toolCallBuffer[idx]
               ELSE [name |-> None, arguments |-> ""]
        new == [name |-> IF Falsy(tc.name) THEN old.name ELSE tc.name,
                arguments |-> IF Falsy(tc.arguments) THEN old.arguments
                              ELSE tc.arguments \o old.arguments]
    IN  (idx :> new) @@ toolCallBuffer

\* The body of for (const tc of delta.tool_calls) { ... }.
accumulate(toolCallBuffer, tc) ==
    LET idx == tc.index
        old == IF idx \in DOMAIN toolCallBuffer THEN toolCallBuffer[idx]
               ELSE [name |-> None, arguments |-> ""]
        new == [name |-> IF Falsy(tc.name) THEN old.name ELSE tc.name,
                arguments |-> IF Falsy(tc.arguments) THEN old.arguments
                              ELSE old.arguments \o tc.arguments]
    IN  (idx :> new) @@ toolCallBuffer

RECURSIVE accumulateAll(_, _)
accumulateAll(toolCallBuffer, tool_calls) ==
    IF tool_calls = <<>> THEN toolCallBuffer
    ELSE accumulateAll(accumulate(toolCallBuffer, Head(tool_calls)),
                       Tail(tool_calls))

\* Mutant of parseLine: a line that does not parse ends the stream's buffer.
parseLine_MalformedClears(toolCallBuffer, line) ==
    IF line.kind = "malformed" THEN <<>>
    ELSE accumulateAll(toolCallBuffer, line.tool_calls)

\* try { const json = JSON.parse(line.slice(6)); ... } catch (e) { } : what
\* one line does to toolCallBuffer.
parseLine(toolCallBuffer, line) ==
    IF line.kind = "malformed" THEN toolCallBuffer
    ELSE accumulateAll(toolCallBuffer, line.tool_calls)

\* toolCallBuffer after the lines read, in the order they were read.
RECURSIVE toolCallBufferOf(_)
toolCallBufferOf(lines) ==
    IF lines = <<>> THEN <<>>
    ELSE parseLine(toolCallBufferOf(SubSeq(lines, 1, Len(lines) - 1)),
                   lines[Len(lines)])

\* { name: tc.name, args: JSON.parse(tc.arguments) }, or null when the
\* arguments do not parse.
parsedCall(tc) ==
    [ToolCall(tc.name) EXCEPT !.parsable = IsJson(tc.arguments)] @@
    [args |-> IF IsJson(tc.arguments) THEN JsonTable[tc.arguments] ELSE None]

\* Object.values(toolCallBuffer).map(...): the entries by increasing index.
RECURSIVE objectValues(_, _)
objectValues(toolCallBuffer, from) ==
    IF \A idx \in DOMAIN toolCallBuffer : idx < from THEN <<>>
    ELSE (IF from \in DOMAIN toolCallBuffer
          THEN <<parsedCall(toolCallBuffer[from])>> ELSE <<>>)
         \o objectValues(toolCallBuffer, from + 1)

\* One line of the response read by executeUniversalRequest: the text delta
\* goes to onChunk, the tool-call fragments to toolCallBuffer.
readLine(line, maxLines) ==
    /\ pc = "streaming"
    /\ request[1].driver = "universal"
    /\ Len(stream) < maxLines
    /\ stream' = Append(stream, line)
    /\ buffered' = objectValues(toolCallBufferOf(stream'), 0)
    /\ IF line.kind = "data" /\ ~Falsy(line.content)
       THEN /\ accumulatedText' = accumulatedText \o line.content
            /\ session' = [session EXCEPT
                              ![aiMsgIndex(session)].content = @ \o line.content,
                              ![aiMsgIndex(session)].groundingMetadata = FALSE]
       ELSE UNCHANGED <<accumulatedText, session>>
    /\ UNCHANGED <<project, isSimulating, simulatedProject, activeContextIds,
                   isLoading, sessions, activeSessionId, hasElectron, envKey, request, pc, closure,
                   runtimeProject, stack, currentHistory, callIdx, awaited,
                   uuidCount, calls, uiOps, onErrorCalls, dispatches>>
    /\ UNCHANGED loopVars

\* ---------------------------------------------------- the native driver
\* A part of a chunk: text (None when absent) and functionCall (<<>> when
\* absent, <<call>> otherwise).
Part(text, functionCall) == [text |-> text, functionCall |-> functionCall]

\* A chunk of the response stream: candidates[0].content.parts, c.text for
\* a chunk without parts, and whether it has groundingChunks.
Chunk(parts, text, groundingMetadata) ==
    [parts |-> parts, text |-> text, groundingMetadata |-> groundingMetadata]

\* What the driver has done with a chunk so far: the text passed to
\* onChunk, the calls pushed, whether onChunk was called and the metadata of
\* its last call.
Demuxed(text, pushed, forwarded, metadata) ==
    [text |-> text, calls |-> pushed, forwarded |-> forwarded,
     metadata |-> metadata]

\* if (part.text) callbacks.onChunk(part.text);
\* if (part.functionCall) toolCalls.push(part.functionCall);
demuxPart(acc, part) ==
    LET a1 == IF Falsy(part.text) THEN acc
              ELSE [acc EXCEPT !.text = @ \o part.text, !.forwarded = TRUE,
                               !.metadata = FALSE]
    IN  IF part.functionCall = <<>> THEN a1
        ELSE [a1 EXCEPT !.calls = Append(@, part.functionCall[1])]

RECURSIVE demuxParts(_, _)
demuxParts(acc, parts) ==
    IF parts = <<>> THEN acc
    ELSE demuxParts(demuxPart(acc, Head(parts)), Tail(parts))

\* Mutant of demux: only a function call in the first part of a chunk is
\* taken, and a chunk with one forwards no text.
demux_FirstPartOnly(chunk) ==
    LET start == Demuxed("", <<>>, FALSE, FALSE)
    IN  IF chunk.parts # <<>> /\ chunk.parts[1].functionCall # <<>>
        THEN [start EXCEPT !.calls = chunk.parts[1].functionCall]
        ELSE LET a1 == demuxParts(start,
                           [i \in 1..Len(chunk.parts) |->
                               Part(chunk.parts[i].text, <<>>)])
             IN  IF chunk.groundingMetadata
                 THEN [a1 EXCEPT !.forwarded = TRUE, !.metadata = TRUE]
                 ELSE a1

\* The body of for await (const chunk of responseStream) { ... }.
demux(chunk) ==
    LET start == Demuxed("", <<>>, FALSE, FALSE)
        a1 == IF chunk.parts # <<>> THEN demuxParts(start, chunk.parts)
              ELSE IF ~Falsy(chunk.text)
                   THEN [start EXCEPT !.text = chunk.text, !.forwarded = TRUE]
                   ELSE start
    IN  IF chunk.groundingMetadata
        THEN [a1 EXCEPT !.forwarded = TRUE, !.metadata = TRUE]
        ELSE a1

\* One chunk of the response read by executeGoogleRequest.
readChunk(chunk, maxChunks) ==
    /\ pc = "streaming"
    /\ request[1].driver = "google"
    /\ Len(stream) < maxChunks
    /\ stream' = Append(stream, chunk)
    /\ LET done == demux(chunk)
       IN  /\ buffered' = buffered \o done.calls
           /\ accumulatedText' = accumulatedText \o done.text
           /\ session' =
                 IF done.forwarded
                 THEN [session EXCEPT
                         ![aiMsgIndex(session)].content = @ \o done.text,
                         ![aiMsgIndex(session)].groundingMetadata = done.metadata]
                 ELSE session
    /\ UNCHANGED <<project, isSimulating, simulatedProject, activeContextIds,
                   isLoading, sessions, activeSessionId, hasElectron, envKey, request, pc, closure,
                   runtimeProject, stack, currentHistory, callIdx, awaited,
                   uuidCount, calls, uiOps, onErrorCalls, dispatches>>
    /\ UNCHANGED loopVars

\* --------------------------------------------------- inputs of SpecFork
\* The calls of SpecFork: a fork made by deep copy, and mutations of the
\* store before and after it.
ForkCalls ==
    {ManageSimulation("start"),
     ManageNode("create", None, None, "MEMORY", "Memo", "c1"),
     ManageNode("update", "tjs", None, None, None, "c2")}

NextFork ==
    \/ handleSend(FALSE)
    \/ \E call \in ForkCalls : onPart(call, MaxForkCalls)
    \/ onComplete
    \/ onError
    \/ onToolCall
    \/ ExecCall
    \/ Recurse

\* ------------------------------------------------- inputs of SpecStream
\* The text deltas of a stream.
Deltas == {"a", "b"}

\* The events of a stream that reach onChunk: a text part, or the grounding
\* metadata of a chunk (native driver only).
ChunkEvents ==
    {<<chunk, FALSE>> : chunk \in Deltas} \cup {<<"", TRUE>>}

\* The tool calls of a stream: a tool of the store, an unknown tool, and an
\* entry of toolCallBuffer whose accumulated arguments do not parse.
StreamCalls == {ToolCall("Get_Time"), ToolCall("nope"), Unparsable("Get_Time")}

\* The stored project with the kernel on the native or on a universal
\* provider.
streamProject(provider) ==
    [savedProject EXCEPT !.nodes[Root].provider = provider]

InitStream ==
    \E provider \in {"google", "openai"} :
        InitFrom(streamProject(provider), savedProject.order, FALSE, None)

NextStream ==
    \/ handleSend(FALSE)
    \/ \E ev \in ChunkEvents :
          /\ request # <<>>
          /\ ev[2] => request[1].driver = "google"
          /\ onChunk(ev[1], ev[2], MaxText)
    \/ \E call \in StreamCalls : onPart(call, MaxStreamCalls)
    \/ onComplete
    \/ onError
    \/ onToolCall
    \/ ExecCall
    \/ \E ending \in ToolEndings : ToolReturn(ending)
    \/ Recurse

SpecStream == InitStream /\ [][NextStream]_vars

\* ------------------------------------------------------- the session list
\* The session state of the render.
SessSt == [sessions |-> sessions, activeSessionId |-> activeSessionId,
           uuidCount |-> uuidCount]

SessionIds(list) == {list[i].id : i \in DOMAIN list}

\* The variables no session handler writes.
SessionFrame ==
    UNCHANGED <<project, isSimulating, simulatedProject, activeContextIds,
                isLoading, session, hasElectron, envKey, stream, request,
                accumulatedText, pc, closure, runtimeProject, stack,
                currentHistory, buffered, toolCalls, callIdx, nextProject,
                nextStack, modified, triggeredSimulationChange, newHistory,
                awaited, calls, uiOps, onErrorCalls, dispatches>>

SessionWritten(st) ==
    /\ sessions' = st.sessions
    /\ activeSessionId' = st.activeSessionId
    /\ uuidCount' = st.uuidCount
    /\ SessionFrame

\* setSessions(prev => [newSession, ...prev]); setActiveSessionId(newId):
\* prev is the list of the state, which no earlier setSessions of the handler
\* has replaced.
newSession(st) ==
    LET newId == uuid(st.uuidCount + 1)
    IN  [sessions |-> <<Session(newId)>> \o st.sessions,
         activeSessionId |-> newId,
         uuidCount |-> st.uuidCount + 1]

deleteSession(id, st) ==
    LET newSessions == SelectSeq(st.sessions, LAMBDA s : s.id # id)
    IN  IF Len(newSessions) = 0
        THEN newSession(st)
        ELSE [st EXCEPT !.sessions = newSessions,
                        !.activeSessionId =
                            IF st.activeSessionId = id
                            THEN newSessions[1].id ELSE @]

\* A click on "New Session" of the sidebar.
handleNewSession ==
    /\ uuidCount < MaxNewSessions
    /\ SessionWritten(newSession(SessSt))

\* A click on the delete button of the session id of the sidebar.
handleDeleteSession(id) ==
    /\ id \in SessionIds(sessions)
    /\ deleteSession(id, SessSt).uuidCount <= MaxNewSessions
    /\ SessionWritten(deleteSession(id, SessSt))

\* A click on the session id of the sidebar: onSwitchSession={setActiveSessionId}.
onSwitchSession(id) ==
    /\ id \in SessionIds(sessions)
    /\ activeSessionId' = id
    /\ UNCHANGED <<sessions, uuidCount>>
    /\ SessionFrame

\* setSessions(prev => prev.map(s => s.id === id ? {...s, title: newTitle} : s))
handleRenameSession(id, newTitle) ==
    /\ id \in SessionIds(sessions)
    /\ sessions' = [i \in DOMAIN sessions |->
                       IF sessions[i].id = id
                       THEN [sessions[i] EXCEPT !.title = newTitle]
                       ELSE sessions[i]]
    /\ UNCHANGED <<activeSessionId, uuidCount>>
    /\ SessionFrame

AllSessionIds == {"default"} \cup Range(NewIds)

InitSessions == InitFrom(savedProject, savedProject.order, FALSE, None)

NextSessions ==
    \/ handleNewSession
    \/ \E id \in AllSessionIds : handleDeleteSession(id)
    \/ \E id \in AllSessionIds : onSwitchSession(id)
    \/ \E id \in AllSessionIds : handleRenameSession(id, "Renamed")

SpecSessions == InitSessions /\ [][NextSessions]_vars

\* ----------------------------------------------- inputs of SpecInactive
\* The stored project with the tool "Get Time" unchecked in the explorer.
InactiveCalls == {ToolCall("Get_Time"), ToolCall("Py_Tool"), ToolCall("nope")}

InitInactive == InitFrom(savedProject, <<Root, "tpy">>, FALSE, None)

NextInactive ==
    \/ handleSend(FALSE)
    \/ \E call \in InactiveCalls : onPart(call, MaxStreamCalls)
    \/ onComplete
    \/ onError
    \/ onToolCall
    \/ ExecCall
    \/ \E ending \in ToolEndings : ToolReturn(ending)
    \/ Recurse

SpecInactive == InitInactive /\ [][NextInactive]_vars

\* ------------------------------------------------- inputs of SpecNative
\* The chunks of a response: text; text and then a tool call in one chunk;
\* a tool call; a tool call, text and a second tool call in one chunk; a
\* chunk without parts that has text; and grounding metadata.
NativeChunks ==
    {Chunk(<<Part("a", <<>>)>>, None, FALSE),
     Chunk(<<Part("b", <<>>), Part(None, <<ToolCall("Get_Time")>>)>>,
           None, FALSE),
     Chunk(<<Part(None, <<ToolCall("nope")>>)>>, None, FALSE),
     Chunk(<<Part(None, <<ToolCall("nope")>>), Part("a", <<>>),
             Part(None, <<ToolCall("Get_Time")>>)>>, None, FALSE),
     Chunk(<<>>, "b", FALSE),
     Chunk(<<>>, None, TRUE)}

InitNative ==
    InitFrom(streamProject("google"), savedProject.order, FALSE, None)

NextNative ==
    \/ handleSend(FALSE)
    \/ \E chunk \in NativeChunks : readChunk(chunk, MaxChunks)
    \/ onComplete
    \/ onError
    \/ onToolCall
    \/ ExecCall
    \/ \E ending \in ToolEndings : ToolReturn(ending)

SpecNative == InitNative /\ [][NextNative]_vars

\* ---------------------------------------------- inputs of SpecUniversal
\* The lines of a response: the two fragments of {"a":1,"b":2} for index 0,
\* the first with the name; a text delta with a whole call of index 1; a
\* text delta; a line with fragments of both indices, the later index
\* first; and a line that does not parse.
UniversalLines ==
    {DataLine(None, <<Fragment(0, "Get_Time", "{\"a\":1")>>),
     DataLine(None, <<Fragment(0, None, ",\"b\":2}")>>),
     DataLine("a", <<Fragment(1, "nope", "{}")>>),
     DataLine("b", <<>>),
     DataLine(None, <<Fragment(1, "nope", "{"), Fragment(0, None, "}")>>),
     MalformedLine}

InitUniversal ==
    InitFrom(streamProject("openai"), savedProject.order, FALSE, None)

NextUniversal ==
    \/ handleSend(FALSE)
    \/ \E line \in UniversalLines : readLine(line, MaxLines)
    \/ onComplete
    \/ onError
    \/ onToolCall
    \/ ExecCall
    \/ \E ending \in ToolEndings : ToolReturn(ending)

SpecUniversal == InitUniversal /\ [][NextUniversal]_vars

\* --------------------------------------------------- inputs of SpecTree
\* A stored tree three levels deep: the kernel, an agent, a tool of the
\* agent and a tool attached to that tool.
treeNodes ==
    (Root :> savedRoot) @@
    ("ag" :> Node("ag", Root, "AGENT", "Memo", None, None, None)) @@
    ("tjs" :> Node("tjs", "ag", "TOOL", "Get Time", "javascript", None, None)) @@
    ("tpy" :> Node("tpy", "tjs", "TOOL", "Py-Tool", "python", None, None))

treeProject ==
    [rootNodeId |-> Root, selectedNodeId |-> "tjs", nodes |-> treeNodes,
     order |-> <<Root, "ag", "tjs", "tpy">>]

\* The calls of SpecTree: a reparenting, a deletion of an inner node, a
\* creation, and a call that names the kernel.
TreeCalls ==
    {ManageNode("update", "ag", "tpy", None, None, None),
     ManageNode("delete", "ag", None, None, None, None),
     ManageNode("create", None, None, "MEMORY", "Memo", "c1"),
     ToolCall("Aether_Kernel")}

InitTree == InitFrom(treeProject, treeProject.order, FALSE, None)

NextTree ==
    \/ Submit
    \/ \E call \in TreeCalls : onPart(call, MaxTreeCalls)
    \/ onComplete
    \/ onError
    \/ onToolCall
    \/ ExecCall
    \/ \E ending \in ToolEndings : ToolReturn(ending)
    \/ Recurse
    \/ InspectorSave

SpecTree == InitTree /\ [][NextTree]_vars

\* ------------------------------------------------- inputs of the engine
\* The kernel as the inspector can configure it.
RootTypes == {"SYSTEM", "AGENT"}
Providers == {None, "google", "litellm", "openai"}
NodeKeys == {None, "", "sk-node"}
EnvKeys == {None, "sk-env"}

rootWith(type, provider, apiKey) ==
    [savedRoot EXCEPT !.type = type, !.provider = provider, !.apiKey = apiKey]

\* A tool node of kind search.
SearchTool(id, parentId) ==
    [Node(id, parentId, "TOOL", "Memo", None, None, None)
        EXCEPT !.toolType = "googleSearch"]

\* A stored tree with an agent, a function tool below it, two search tools
\* and a memory.
stackNodes(root) ==
    (Root :> root) @@
    ("ag" :> Node("ag", Root, "AGENT", "Memo", None, None, None)) @@
    ("tjs" :> Node("tjs", "ag", "TOOL", "Get Time", "javascript", None, None)) @@
    ("s1" :> SearchTool("s1", Root)) @@
    ("s2" :> SearchTool("s2", "ag")) @@
    ("mem" :> Node("mem", Root, "MEMORY", "Memo", None, None, None))

stackProject(root) ==
    [rootNodeId |-> Root, selectedNodeId |-> "ag", nodes |-> stackNodes(root),
     order |-> <<Root, "ag", "tjs", "s1", "s2", "mem">>]

EngineProjects ==
    {stackProject(rootWith(t, pr, k)) :
        t \in RootTypes, pr \in Providers, k \in NodeKeys}
    \cup {[savedProject EXCEPT !.nodes[Root] = rootWith("SYSTEM", pr, k)] :
             pr \in Providers, k \in NodeKeys}

\* Stored active sets (toggled in the explorer).
EngineActiveSets ==
    {<<>>, <<"tjs">>, <<"s1">>, <<Root, "ag", "s1", "s2">>,
     <<Root, "ag", "tjs", "s1", "s2", "mem">>}

InitEngine ==
    \E p \in EngineProjects, ids \in EngineActiveSets, env \in EnvKeys :
        InitFrom(p, ids, FALSE, env)

NextEngine ==
    \/ Submit
    \/ onComplete
    \/ onError

SpecEngine == InitEngine /\ [][NextEngine]_vars

\* The stores SpecFork starts from: the stored project, a deeper tree, and
\* a project with search tools and a kernel without a key.
ForkProjects ==
    {savedProject, treeProject, stackProject(rootWith("SYSTEM", None, ""))}

InitFork ==
    \E p \in ForkProjects : InitFrom(p, p.order, FALSE, "sk-env")

SpecFork == InitFork /\ [][NextFork]_vars

\* ================================================================ claims
\* A fork is active: the flag is set and a fork is stored.
ForkActive == isSimulating /\ simulatedProject # <<>>

\* The for loop is at a manage_simulation call with the given action.
AtSimCall(action) ==
    /\ pc = "executing"
    /\ callIdx <= Len(toolCalls)
    /\ toolCalls[callIdx].name = "manage_simulation"
    /\ toolCalls[callIdx].hasArgs
    /\ toolCalls[callIdx].action = action

\* The step of the loop that executes such a call.
SimCallStep(action) == AtSimCall(action) /\ ExecCall

\* The result text of a start that is rejected.
RAlreadyActive == "Simulation already active."

\* The tool result pushed by the step just taken.
LastResult == newHistory'[Len(newHistory')].content

\* C1 -- Fork isolation: from a simulation start until the next commit no
\* step other than a commit changes the live Node Store, whether the
\* manage_node mutation comes in the batch of the start, in a later batch of
\* the turn or in a later turn.
C1_ForkIsolation ==
    [][(isSimulating /\ ~(SimCallStep("commit") \/ UICommit))
          => project' = project]_vars

\* C2 -- commit() with an active fork replaces the live Node Store with the
\* fork's contents (with the mutations written to it by earlier batches) and
\* leaves no fork active.
C2_CommitReplacesLive ==
    [][(ForkActive /\ SimCallStep("commit"))
          => /\ project' = simulatedProject[1]
             /\ ~isSimulating'
             /\ simulatedProject' = <<>>]_vars

\* C3 -- start() with a fork already active is a no-op that keeps the fork
\* as it is and reports already-active.
C3_StartRejectedWhenActive ==
    [][(ForkActive /\ SimCallStep("start"))
          => /\ simulatedProject' = simulatedProject
             /\ isSimulating'
             /\ LastResult = RAlreadyActive]_vars

\* C4 -- abort() or commit() with no fork active leaves the live Node Store
\* unchanged and no fork active, from the UI or from a manage_simulation
\* call.
C4_NoForkNoEffect ==
    [][(~ForkActive /\ (SimCallStep("commit") \/ SimCallStep("abort")
                        \/ UICommit \/ UIAbort))
          => /\ project' = project
             /\ ~isSimulating'
             /\ simulatedProject' = <<>>]_vars

\* C5 -- After a manage_simulation abort of an active fork the node store
\* that the loop carries to the recursive dispatch is the reverted live
\* store: what was done in the aborted fork is gone from it.
C5_AbortRevertsInFlightStore ==
    [][(ForkActive /\ SimCallStep("abort"))
          => /\ ~isSimulating'
             /\ simulatedProject' = <<>>
             /\ nextProject' = project']_vars

\* ------------------------------------------------------ the tool loop
\* The history h starts with the model message of a batch and answers each of
\* its calls, in order, by one tool message of the call's name.
AnsweredBatch(h) ==
    /\ Len(h) = Len(h[1].toolCalls) + 1
    /\ \A i \in 1..Len(h[1].toolCalls) :
          /\ h[i + 1].role = "tool"
          /\ h[i + 1].name = h[1].toolCalls[i].name

\* C6 -- The history passed to a recursive dispatch holds, after the model
\* message of the batch, exactly one tool result per requested call, named
\* as the call, whatever the call was.
C6_EveryCallAnswered ==
    (Len(currentHistory) > 0 /\ currentHistory[1].role = "model")
        => AnsweredBatch(currentHistory)

\* A recursive dispatch of a batch of an unknown tool and a manage_node call
\* without arguments.
C6_Witness ==
    /\ pc = "streaming"
    /\ Len(currentHistory) = 3
    /\ currentHistory[1].role = "model"
    /\ currentHistory[2].content = RNotFound
    /\ currentHistory[3].content = RErrType

IsToolMsg(m) == m.role = "tool"

\* C7 -- While a batch executes, the results appended so far, to the history
\* and to the session, are those of the calls already executed, in the order
\* of the calls; a call is not answered before the ones requested before it.
C7_ResultsInCallOrder ==
    pc \in {"executing", "awaitingTool", "crashed"}
        => /\ Len(newHistory) = callIdx
           /\ \A i \in 1..(callIdx - 1) :
                 /\ newHistory[i + 1].role = "tool"
                 /\ newHistory[i + 1].name = toolCalls[i].name
           /\ SelectSeq(session, IsToolMsg) = Tail(newHistory)

\* A tool that ran in the runner, answered before the unknown tool requested
\* after it.
C7_Witness ==
    /\ pc = "executing"
    /\ callIdx = 3
    /\ toolCalls[1].name = "Get_Time"
    /\ toolCalls[2].name = "nope"
    /\ newHistory[2].content = RToolOutput
    /\ newHistory[3].content = RNotFound

\* The for loop is at a call of the runtime executor that cannot be resolved
\* or cannot be run.
AtToolFault ==
    /\ pc = "executing"
    /\ callIdx <= Len(toolCalls)
    /\ toolCalls[callIdx].name \notin {"manage_simulation", "manage_node"}
    /\ LET at == findTarget(nextProject, toolCalls[callIdx].name)
       IN  \/ at = 0
           \/ /\ nextProject.nodes[nextProject.order[at]].language = "python"
              /\ ~hasElectron

\* C8 -- A call of an unknown tool, of a Python tool without the bridge, or
\* of a tool whose code throws gets a textual tool result; the loop goes on
\* with the next call and the turn is not ended.
C8_ToolFaultsRecovered ==
    [][((AtToolFault /\ ExecCall)
        \/ ToolReturn("throwsError") \/ ToolReturn("throwsNullish"))
          => /\ pc' = "executing"
             /\ callIdx' = callIdx + 1
             /\ LastResult \in {RNotFound, RException}
             /\ isLoading']_vars

\* The for loop is at a manage_node call that names a missing node or parent.
AtStructuralFault ==
    /\ pc = "executing"
    /\ callIdx <= Len(toolCalls)
    /\ toolCalls[callIdx].name = "manage_node"
    /\ toolCalls[callIdx].hasArgs
    /\ LET c == toolCalls[callIdx]
       IN  \/ c.action \in {"update", "delete"} /\ ~Has(nextProject, c.nodeId)
           \/ /\ c.action = "create"
              /\ ~Has(nextProject, IF c.parentId # None THEN c.parentId
                                   ELSE nextProject.rootNodeId)

C10_TransportFailureEndsTurn ==
    /\ [][onError => /\ pc' = "failed"
                     /\ ~isLoading'
                     /\ onErrorCalls' = 1
                     /\ dispatches' = 1]_vars
    /\ [][pc = "failed" => (pc' = "failed" \/ Submit)]_vars

\* The request of a recursive dispatch failed.
C10_Witness ==
    /\ pc = "failed"
    /\ dispatches = 1
    /\ onErrorCalls = 1
    /\ ~isLoading
    /\ Len(currentHistory) = 3
    /\ currentHistory[1].role = "model"

\* ------------------------------------------------------------ the engine
\* No API key can be resolved for the root node of the store p.
NoCredential(p) ==
    /\ Has(p, p.rootNodeId)
    /\ Falsy(p.nodes[p.rootNodeId].apiKey)
    /\ Falsy(envKey)
    /\ p.nodes[p.rootNodeId].provider # "litellm"

\* C11 -- A submission for which no API key can be resolved (none on the root
\* node, none in the environment, provider not the LiteLLM proxy) is reported
\* through the failure callback and hands no request to a driver.
C11_MissingCredentialNoRequest ==
    [][(Submit /\ NoCredential(activeProject))
          => /\ pc' = "failed"
             /\ request' = <<>>
             /\ dispatches' = 0
             /\ onErrorCalls' = 1
             /\ ~isLoading']_vars

\* A submission failed for a kernel of provider openai with an empty key.
C11_Witness ==
    /\ pc = "failed"
    /\ request = <<>>
    /\ dispatches = 0
    /\ onErrorCalls = 1
    /\ NoCredential(runtimeProject)
    /\ runtimeProject.nodes[Root].provider = "openai"
    /\ runtimeProject.nodes[Root].apiKey = ""

\* The nodes of p that are tools in the active set ids.
ActiveTools(p, ids) ==
    {k \in DOMAIN p.nodes : p.nodes[k].type = "TOOL" /\ shouldInclude(p, ids, k)}

IsSearch(p, k) == p.nodes[k].toolType = "googleSearch"

\* The entries of a catalog: a search capability is one, a
\* functionDeclarations object one per declaration.
RECURSIVE CatalogSize(_)
CatalogSize(tools) ==
    IF tools = <<>> THEN 0
    ELSE (IF Head(tools).kind = "googleSearch" THEN 1 ELSE Len(Head(tools).names))
         + CatalogSize(Tail(tools))

\* C14 -- The catalog of the Context Assembler has one entry per active tool
\* that is not a search tool, one entry if some active tool is a search tool,
\* and the two built-ins.
C14_CatalogSize ==
    pc = "streaming" =>
        CatalogSize(collectContext(runtimeProject, stack).tools)
          = Cardinality({k \in ActiveTools(runtimeProject, stack) :
                            ~IsSearch(runtimeProject, k)})
            + (IF \E k \in ActiveTools(runtimeProject, stack) :
                     IsSearch(runtimeProject, k)
               THEN 1 ELSE 0)
            + 2

\* The blocks of instruction text that carry the id k.
BlocksOf(instruction, k) ==
    {i \in 1..Len(instruction) : instruction[i].id = k}

\* C15 -- The instruction text of the Context Assembler has exactly one
\* labelled block per node of the active set, the root counting as a member
\* whatever its type, and none for a node outside.
C15_OneBlockPerActiveNode ==
    pc = "streaming" =>
        LET instruction == collectContext(runtimeProject, stack).instruction
        IN  \A k \in DOMAIN runtimeProject.nodes :
               Cardinality(BlocksOf(instruction, k))
                 = IF shouldInclude(runtimeProject, stack, k) THEN 1 ELSE 0

\* --------------------------------------------------------- the node tree
\* The store p is a tree: its root exists and is the one node without a
\* parent, and the parent of every other node exists.
WellFormed(p) ==
    /\ Has(p, p.rootNodeId)
    /\ \A k \in DOMAIN p.nodes :
          IF k = p.rootNodeId
          THEN p.nodes[k].parentId = NullParent
          ELSE Has(p, p.nodes[k].parentId)

\* C12 -- After any sequence of manage_node calls the node store is a tree:
\* exactly one node has no parent, it is the root and it still exists, and
\* the parent of every other node exists. Stated of the store the loop
\* mutates and of the store it writes back.
C12_TreeAfterManageNode ==
    WellFormed(nextProject) /\ WellFormed(project)

\* The ancestors of k in p by at most n parent links.
RECURSIVE Ancestors(_, _, _)
Ancestors(p, k, n) ==
    IF n = 0 \/ ~Has(p, k) \/ ~Has(p, p.nodes[k].parentId)
    THEN {}
    ELSE {p.nodes[k].parentId} \cup Ancestors(p, p.nodes[k].parentId, n - 1)

\* No node of p is its own ancestor.
Acyclic(p) ==
    \A k \in DOMAIN p.nodes : k \notin Ancestors(p, k, Len(p.order))

\* C13 -- A reparenting that would make a node its own ancestor is
\* rejected, from a manage_node update with a parentId and from the parent
\* selector of the Node Inspector: the parent relation of the store the
\* loop mutates and of the store the inspector writes stays acyclic.
C13_ReparentingKeepsAcyclic ==
    Acyclic(nextProject) /\ Acyclic(activeProject)

\* ----------------------------------------------------- tool resolution
\* The loop is at a call that is neither manage_node nor manage_simulation.
AtRuntimeCall ==
    /\ pc = "executing"
    /\ callIdx <= Len(toolCalls)
    /\ toolCalls[callIdx].name \notin {"manage_node", "manage_simulation"}

\* The positions in store order of the Tool nodes of p whose sanitized name
\* is toolName.
ToolHits(p, toolName) ==
    {i \in 1..Len(p.order) :
        /\ p.nodes[p.order[i]].type = "TOOL"
        /\ sanitizeName(p.nodes[p.order[i]].name) = toolName}

\* C16 -- A call that is neither manage_node nor manage_simulation is
\* resolved by its name against the sanitized names of the Tool nodes only:
\* with no such Tool node the call is answered "not found" and no node of
\* another type is executed; otherwise the first matching Tool node in store
\* order is the one handed to the runner.
C16_ResolvedAgainstToolNodes ==
    [][(AtRuntimeCall /\ ExecCall)
          => LET hits == ToolHits(nextProject, toolCalls[callIdx].name)
                 first == CHOOSE i \in hits : \A j \in hits : i <= j
             IN  IF hits = {}
                 THEN pc' = "executing" /\ LastResult = RNotFound
                 ELSE \/ pc' = "awaitingTool" /\ awaited' = nextProject.order[first]
                      \/ pc' = "executing" /\ LastResult = RException]_vars

\* ------------------------------------------------- the stored active set
\* The ids the batch that just ran has created and deleted in the store.
CreatedIds == (DOMAIN nextProject.nodes) \ (DOMAIN runtimeProject.nodes)
DeletedIds == (DOMAIN runtimeProject.nodes) \ (DOMAIN nextProject.nodes)

\* C17 -- During a turn the stored active context set changes only by the
\* ids of the nodes a batch has created (added) and deleted (removed): a
\* batch without a successful create or delete, and every other step of
\* the turn, leaves it as it is, whatever filter the turn was started with.
C17_ActiveSetFrame ==
    [][IF Recurse
       THEN Range(activeContextIds') =
                (Range(activeContextIds) \cup CreatedIds) \ DeletedIds
       ELSE activeContextIds' = activeContextIds]_vars

\* ------------------------------------------------------ turns in flight
\* A turn is dispatching or streaming, or executing tools.
InFlight == pc \in {"streaming", "executing", "awaitingTool"}

\* C18 -- At most one turn is in flight: while a turn is streaming or
\* executing tools the loading flag is set and a submission is rejected,
\* that is no step of handleSend is possible, so that no message is appended
\* and no dispatch started.
C18_OneTurnInFlight ==
    InFlight => (isLoading /\ ~ENABLED Submit)

\* The runner is executing a tool of the turn's second batch.
C18_Witness ==
    /\ pc = "awaitingTool"
    /\ isLoading
    /\ Len(currentHistory) > 1

\* ------------------------------------------------- the driver's callbacks
\* A step of a dispatch whose stream has, at its end, the tool calls
\* pending: the stream goes on, or the dispatch ends in exactly one of
\* onComplete (nothing pending), onToolCall (something pending) and onError;
\* and outside a stream no text arrives.
OneCallback(pending) ==
    /\ pc = "streaming" =>
          \/ pc' = "streaming" /\ dispatches' = dispatches
          \/ pc' = "completed" /\ pending = <<>>
          \/ pc' = "executing" /\ pending # <<>>
          \/ pc' = "failed"
    /\ pc # "streaming" => accumulatedText' \in {accumulatedText, ""}

\* C19 as stated -- For every dispatch, by either driver, exactly one of
\* onToolCall, onComplete, onError is called, after every text chunk of the
\* stream: onComplete if and only if the stream ended without failure and
\* with no buffered tool call, onToolCall if and only if it ended without
\* failure with at least one buffered tool call.
C19_AsStated ==
    [][OneCallback(buffered)]_vars

\* C19 -- For every dispatch, by either driver, exactly one of onToolCall,
\* onComplete, onError is called, after every text chunk of the stream:
\* onComplete if and only if the stream ended without failure and none of
\* the buffered tool calls has arguments that parse, onToolCall (once, with
\* the calls that parse) if and only if it ended without failure and at
\* least one has.
C19_OneCallbackPerDispatch ==
    [][/\ OneCallback(finalToolCalls(buffered))
       /\ (pc = "streaming" /\ pc' = "executing")
             => toolCalls' = finalToolCalls(buffered)]_vars

\* A stream of the universal driver that ended in onComplete after text and
\* a call whose arguments did not parse.
C19_Witness ==
    /\ pc = "completed"
    /\ accumulatedText # ""
    /\ buffered # <<>>

\* -------------------------------------------------------- streamed text
\* The content of the model message the phase in flight writes to.
AiContent(sess) == sess[aiMsgIndex(sess)].content

\* The texts of at most n deltas.
RECURSIVE TextsUpTo(_)
TextsUpTo(n) ==
    IF n = 0 THEN {""}
    ELSE LET shorter == TextsUpTo(n - 1)
         IN  shorter \cup {t \o chunk : t \in shorter, chunk \in Deltas}

\* The text after is the text before, or the text before with more text
\* after it.
Extends(after, before) ==
    \/ before = ""
    \/ \E t \in TextsUpTo(MaxText) : after = before \o t

\* C20 -- Streamed text is append-only: while a phase streams, the content
\* of its model message is the concatenation in arrival order of the deltas
\* received so far, and no event of the phase (text or metadata chunk,
\* tool-call batch, completion, failure) removes or replaces text already
\* appended.
C20_TextAppendOnly ==
    [][pc = "streaming"
          => /\ AiContent(session) = accumulatedText
             /\ pc' \in {"streaming", "completed", "executing", "failed"}
                   => Extends(AiContent(session'), AiContent(session))]_vars

\* ----------------------------------------------------------- round trip
\* The stores p and q have the same node ids, the same parent of every node
\* and the same field values.
SameStore(p, q) ==
    /\ DOMAIN p.nodes = DOMAIN q.nodes
    /\ p.rootNodeId = q.rootNodeId
    /\ p.selectedNodeId = q.selectedNodeId
    /\ \A k \in DOMAIN p.nodes :
          /\ p.nodes[k].parentId = q.nodes[k].parentId
          /\ p.nodes[k] = q.nodes[k]

RoundTrip(p) == SameStore(Parse(Stringify(p)), p)

\* C21 -- Serializing a Node Store and deserializing it again, as on save
\* and load and on the deep copy that makes a fork, gives a store with the
\* same node ids, the same parent of every node and the same field values:
\* stated of the live store, of the fork and of the store the loop mutates.
C21_RoundTrip ==
    /\ RoundTrip(project)
    /\ RoundTrip(nextProject)
    /\ simulatedProject # <<>> => RoundTrip(simulatedProject[1])

\* A fork made by deep copy of a live store that holds a created node, with
\* fields that are undefined and the null parent of the root.
C21_Witness ==
    /\ ForkActive
    /\ Has(simulatedProject[1], "n1")
    /\ simulatedProject[1].nodes[Root].parentId = NullParent
    /\ simulatedProject[1].nodes["n1"].language # None
    /\ simulatedProject[1].nodes["n1"].apiKey = None

\* ------------------------------------------- arguments from fragments
\* The tool-call fragments of the lines that parse, in arrival order.
RECURSIVE AllFragments(_)
AllFragments(lines) ==
    IF lines = <<>> THEN <<>>
    ELSE (IF Head(lines).kind = "data" THEN Head(lines).tool_calls ELSE <<>>)
         \o AllFragments(Tail(lines))

\* The argument texts of the fragments, one after the other.
RECURSIVE ArgText(_)
ArgText(frags) ==
    IF frags = <<>> THEN ""
    ELSE (IF Head(frags).arguments = None THEN "" ELSE Head(frags).arguments)
         \o ArgText(Tail(frags))

\* The name given by the fragments.
RECURSIVE GivenName(_)
GivenName(frags) ==
    IF frags = <<>> THEN None
    ELSE IF Falsy(frags[Len(frags)].name)
         THEN GivenName(SubSeq(frags, 1, Len(frags) - 1))
         ELSE frags[Len(frags)].name

\* The numbers of S in increasing order.
RECURSIVE Ascending(_)
Ascending(S) ==
    IF S = {} THEN <<>>
    ELSE LET least == CHOOSE x \in S : \A y \in S : x <= y
         IN  <<least>> \o Ascending(S \ {least})

\* The calls a stream of these lines stands for: by increasing index, each
\* index whose fragments, concatenated in arrival order, parse.
StreamCallsOf(lines) ==
    LET frags == AllFragments(lines)
        of(i) == SelectSeq(frags, LAMBDA f : f.index = i)
        indices == {frags[k].index : k \in 1..Len(frags)}
        whole == {i \in indices : IsJson(ArgText(of(i)))}
        order == Ascending(whole)
    IN  [k \in 1..Len(order) |->
            [name |-> GivenName(of(order[k])),
             args |-> JsonTable[ArgText(of(order[k]))]]]

\* The calls emitted are the calls the lines stand for.
Emits(emitted, lines) ==
    LET expected == StreamCallsOf(lines)
    IN  /\ Len(emitted) = Len(expected)
        /\ \A k \in 1..Len(expected) :
              /\ emitted[k].name = expected[k].name
              /\ emitted[k].args = expected[k].args

UniversalPhase == request # <<>> /\ request[1].driver = "universal"

\* C22 -- Universal driver: a tool call whose argument text arrives in
\* fragments of one index, over any lines and between text deltas and
\* fragments of other indices, is reconstructed with the name given for the
\* index and the parse of the fragments concatenated in arrival order; the
\* calls are handed over after the stream's end, by increasing index.
C22_ArgumentAccumulation ==
    UniversalPhase =>
        /\ pc = "streaming" => Emits(finalToolCalls(buffered), stream)
        /\ pc \in {"executing", "awaitingTool"} => Emits(toolCalls, stream)

\* The two fragments of {"a":1,"b":2} with a text delta and a call of
\* index 1 between them, handed over as two calls.
C22_Witness ==
    /\ UniversalPhase
    /\ pc = "executing"
    /\ Len(stream) = 3
    /\ stream[2].content = "a"
    /\ Len(toolCalls) = 2
    /\ toolCalls[1].name = "Get_Time"
    /\ toolCalls[1].args = [a |-> 1, b |-> 2]
    /\ toolCalls[2].name = "nope"

\* ------------------------------------------------ malformed-stream faults
IsValidLine(line) == line.kind # "malformed"

\* The lines without those that do not parse.
ValidLines(lines) == SelectSeq(lines, IsValidLine)

\* The text deltas of the lines, one after the other.
RECURSIVE TextOf(_)
TextOf(lines) ==
    IF lines = <<>> THEN ""
    ELSE (IF Falsy(Head(lines).content) THEN "" ELSE Head(lines).content)
         \o TextOf(Tail(lines))

\* C23 -- Universal driver: a line that cannot be parsed is dropped and the
\* other lines are processed as if it were absent; a call whose accumulated
\* arguments cannot be parsed is dropped and every other call is delivered;
\* neither makes the phase fail, and with no call left the phase ends as a
\* normal completion.
C23_MalformedRecoveredLocally ==
    UniversalPhase =>
        /\ pc = "streaming" =>
              /\ buffered = objectValues(toolCallBufferOf(ValidLines(stream)), 0)
              /\ accumulatedText = TextOf(ValidLines(stream))
              /\ onErrorCalls = 0
              /\ IF StreamCallsOf(ValidLines(stream)) = <<>>
                 THEN ENABLED onComplete /\ ~ENABLED onToolCall
                 ELSE ENABLED onToolCall /\ ~ENABLED onComplete
        /\ pc \in {"executing", "awaitingTool"} =>
              Emits(toolCalls, ValidLines(stream))

\* A stream with a line that does not parse and a call whose arguments do
\* not parse, whose other call is being executed.
C23_Witness ==
    /\ UniversalPhase
    /\ pc = "executing"
    /\ \E k \in 1..Len(stream) : stream[k] = MalformedLine
    /\ Len(buffered) = 2
    /\ Len(toolCalls) = 1

\* ------------------------------------------------------ synthetic call ids
\* In the messages every call id of an assistant message is the
\* tool_call_id of exactly one tool message after it.
EachCallAnsweredOnce(messages) ==
    \A a \in 1..Len(messages) :
        \A i \in 1..Len(messages[a].tool_calls) :
            Cardinality({t \in (a + 1)..Len(messages) :
                            /\ messages[t].role = "tool"
                            /\ messages[t].tool_call_id
                                  = messages[a].tool_calls[i].id}) = 1

\* C24 -- In the messages the universal driver sends, call i of a model
\* message gets the id made of the message id and i, and every tool result
\* carries the id of the call it answers: each call id of a batch is
\* referenced by exactly one tool message, also in a batch with two calls
\* of the same name.
C24_CallIdsReferencedOnce ==
    (UniversalPhase /\ pc = "streaming")
        => EachCallAnsweredOnce(historyMessages(currentHistory))

\* --------------------------------------------------- catalog translation
IsDeclarations(t) == t.kind = "functionDeclarations"

\* The names declared by the entries, in order.
RECURSIVE DeclaredNames(_)
DeclaredNames(entries) ==
    IF entries = <<>> THEN <<>>
    ELSE Head(entries).names \o DeclaredNames(Tail(entries))

\* C25 -- Universal driver: of the native catalog every search entry is
\* left out and every function declaration of the other entries, the
\* built-ins manage_node and manage_simulation included, becomes exactly
\* one function entry of the same declaration, in catalog order; nothing
\* else is sent.
C25_CatalogTranslation ==
    (UniversalPhase /\ pc = "streaming")
        => LET native == collectContext(runtimeProject, stack).tools
               sent == request[1].tools
           IN  /\ \A k \in 1..Len(sent) :
                     sent[k].kind = "function" /\ Len(sent[k].names) = 1
               /\ DeclaredNames(sent)
                     = DeclaredNames(SelectSeq(native, IsDeclarations))
               /\ {"manage_node", "manage_simulation"}
                     \subseteq Range(DeclaredNames(sent))

\* A request of the universal driver for a catalog with a search entry and
\* a tool of the store.
C25_Witness ==
    /\ UniversalPhase
    /\ pc = "streaming"
    /\ \E k \in 1..Len(collectContext(runtimeProject, stack).tools) :
          collectContext(runtimeProject, stack).tools[k].kind = "googleSearch"
    /\ Len(request[1].tools) = 3

\* ------------------------------------------------ native demultiplexing
\* The parts of the chunks, in arrival order; a chunk without parts counts
\* as one text part.
RECURSIVE AllParts(_)
AllParts(chunks) ==
    IF chunks = <<>> THEN <<>>
    ELSE (IF Head(chunks).parts # <<>> THEN Head(chunks).parts
          ELSE <<Part(Head(chunks).text, <<>>)>>)
         \o AllParts(Tail(chunks))

\* The text of the parts, one after the other.
RECURSIVE PartsText(_)
PartsText(parts) ==
    IF parts = <<>> THEN ""
    ELSE (IF Falsy(Head(parts).text) THEN "" ELSE Head(parts).text)
         \o PartsText(Tail(parts))

IsCallPart(part) == part.functionCall # <<>>

\* The tool calls of the parts, in order.
CallsOf(parts) ==
    LET callParts == SelectSeq(parts, IsCallPart)
    IN  [k \in 1..Len(callParts) |-> callParts[k].functionCall[1]]

NativePhase == request # <<>> /\ request[1].driver = "google"

\* C26 -- Native driver: whatever the interleaving of the parts, after
\* every chunk read the text forwarded is the text of the parts read so
\* far in arrival order, and the tool-call parts are held back and handed
\* over after the stream's end in one batch of all of them in arrival
\* order, also those that are not the first part of their chunk or come
\* after text in their chunk.
C26_NativeDemultiplexing ==
    NativePhase =>
        /\ pc = "streaming" =>
              /\ accumulatedText = PartsText(AllParts(stream))
              /\ AiContent(session) = PartsText(AllParts(stream))
              /\ buffered = CallsOf(AllParts(stream))
        /\ pc \in {"executing", "awaitingTool"} =>
              toolCalls = CallsOf(AllParts(stream))

\* A batch of three calls, two of them from a chunk with text between
\* them, handed over after a text chunk.
C26_Witness ==
    /\ NativePhase
    /\ pc = "executing"
    /\ Len(stream) = 3
    /\ Len(toolCalls) = 3
    /\ accumulatedText # ""

\* --------------------------------------------------------- inactive nodes
\* The names the request's catalog declares.
RequestNames == Range(DeclaredNames(request[1].tools))

\* The sanitized names of the nodes of p that are in the active set ids.
ActiveNames(p, ids) ==
    {sanitizeName(p.nodes[k].name) :
        k \in {n \in DOMAIN p.nodes : shouldInclude(p, ids, n)}}

\* C27 -- A node that is not in the active set of the turn is invisible to
\* the agent: the catalog of the request has no entry for it, and a tool
\* call that names it is not executed but answered with the not-found
\* result.
C27_InactiveNodesInvisible ==
    [][/\ (pc = "streaming" /\ request # <<>>)
            => RequestNames \subseteq
                  (ActiveNames(runtimeProject, stack)
                      \cup {"manage_node", "manage_simulation"})
       /\ (AtRuntimeCall /\ ExecCall
             /\ toolCalls[callIdx].name \notin ActiveNames(nextProject, nextStack))
            => (pc' = "executing" /\ LastResult = RNotFound)]_vars

\* ------------------------------------------------------- the turn ends
\* C28 -- Every accepted submission eventually ends its turn: if every stream
\* ends and the backend eventually returns a phase with no tool calls or a
\* failure, the loading flag set by handleSend is eventually cleared, for
\* every batch of tool calls, a call without arguments included.
C28_TurnEventuallyEnds == isLoading ~> ~isLoading

\* ----------------------------------------------- the write after a batch
\* C29 -- When a batch with a successful manage_node mutation finishes, the
\* mutated store is written to the store that is then active (the fork if a
\* fork is active, otherwise the live store) and the active set is changed
\* to match, also when the batch holds a manage_simulation call.
C29_MutationsWritten ==
    [][(Recurse /\ modified)
          => /\ activeProjectOf(isSimulating', simulatedProject', project')
                   = nextProject
             /\ activeContextIds' = nextStack]_vars

\* ------------------------------------------------------- session deletion
\* C30 -- After handleDeleteSession(id) no session with that id remains in
\* the session list, the list is not empty, and the active session id names
\* a session of the list, also when the deleted session was the only one.
C30_DeleteSession ==
    [][\A id \in AllSessionIds :
          handleDeleteSession(id)
             => /\ id \notin SessionIds(sessions')
                /\ sessions' # <<>>
                /\ activeSessionId' \in SessionIds(sessions')]_vars


====
